---- MODULE Spec2Model ----
(***************************************************************************)
(* Real-time voice streaming pipeline of atlas-voice-companion:            *)
(*   - AudioRecorderWorklet (capture-side frame accumulator)               *)
(*   - the PCM16 / base64 codec of usePCMAudio                             *)
(*   - usePCMAudio playback queue (playAudioChunk)                         *)
(*   - useVoice (startCall / endCall / connect) with usePCMAudio capture   *)
(*   - the Live-API useVoiceSession hook                                   *)
(* Each component has its own specification over its own variables; the    *)
(* variables of the other components stay at their constructed values.     *)
(***************************************************************************)
EXTENDS Integers, Sequences, FiniteSets, TLC

VARIABLES
    \* ---- AudioRecorderWorklet (part_000:7-61)
    constructed,       \* an AudioRecorderWorklet has been constructed
    buffer,            \* this.buffer: Int16Array(2048), index 0..2047
    bufferWriteIndex,  \* this.bufferWriteIndex
    posted,            \* frames handed to port.postMessage, in order
    keepAlive,         \* return value of the last process() call
    pushed,            \* history: samples consumed by process() so far
    lastSample,        \* history: the last input sample consumed
    lastIndex,         \* history: the buffer index it was written at
    calls,             \* history: number of process() calls made
    written,           \* history: the Int16 value of every sample consumed, in order
    idleAt,            \* history: the write index at the last call with no input (-1: none)
    \* ---- capture-side encoder / playback-side decoder (part_000:527-549, 653-661)
    frame,             \* the Int16Array a worklet message carries
    encBytes,          \* uint8Array: the frame's bytes as serialized
    chunk,             \* the base64 text handed to onAudioChunk
    decBytes,          \* bytes: what atob and charCodeAt give back
    decSamples,        \* int16Array: the decoded bytes seen as Int16
    codecPc,           \* "idle", "encoded", "decoded" or "failed"
    \* ---- usePCMAudio capture refs (part_000:445-449)
    audioContextRef,   \* TRUE when audioContextRef.current is not null
    workletNodeRef,    \* TRUE when workletNodeRef.current is not null
    streamRef,         \* TRUE when streamRef.current is not null
    isStartingRef,     \* isStartingRef.current
    ctxLive,           \* capture AudioContexts created and not closed
    nodeLive,          \* worklet nodes connected and not disconnected
    streamLive,        \* microphone streams whose tracks are not stopped
    rec,               \* the startRecording body in progress: [pc, owner]
    stopRefused,       \* history: the last stopRecording() returned at its guard
    bodies,            \* history: startRecording bodies begun and not yet exited
    \* ---- usePCMAudio playback (part_000:448-451, 627-704)
    audioQueueRef,     \* audioQueueRef.current: queued chunks [id, data]
    isPlayingRef,      \* isPlayingRef.current
    playbackContextRef,\* playbackContextRef.current: 0 (null) or a context id
    playCtxs,          \* playback AudioContexts created: "running" / "closed"
                       \* / "dead" (closed, and its sources deliver no event)
    sources,           \* buffer sources started, in start order
    loops,             \* indexes of the sources a playback loop is awaiting
    enqueued,          \* history: number of playAudioChunk calls
    dropped,           \* history: ids of chunks the loop skipped or failed on
    cleanups,          \* history: number of cleanup() calls
    texts,             \* history: the text of every playAudioChunk call, by id
    stops,             \* history: number of stopRecording() calls on the hook
    \* ---- useVoice (part_000:92-423)
    isConnected,       \* useState isConnected
    isSessionActive,   \* useState isSessionActive
    isRecording,       \* useState isRecording
    wsRef,             \* wsRef.current: 0 (null) or a socket
    sockets,           \* readyState of every WebSocket connect() created
    sessionIdRef,      \* sessionIdRef.current: 0 (null) or an id
    lastNow,           \* the last value Date.now() gave (0: none yet)
    sent,              \* envelopes passed to ws.send on an OPEN socket
    startCalls,        \* the startCall invocations: [pc, active, waited, ...]
    toast,            \* the error toast shown last ("" for none)
    frames,            \* history: number of onAudioChunk calls
    micFailed,         \* history: startPCMRecording failed, no user call since
    \* ---- useVoice keepalive (part_000:401-411, 210-212)
    effectSaw,         \* the isConnected the keepalive effect last ran with
    pingInterval,      \* TRUE while the effect's setInterval is set
    pingStates,        \* history: readyStates ws.send was called in for a ping
    pongs,             \* history: number of 'pong' envelopes received
    \* ---- the Live-API useVoiceSession (part_001:17-305)
    live,              \* the hook's state and refs, and the objects it made
    startSessions,     \* the startSession invocations: [pc, state, sock, stream]
    stopCalled,        \* history: stopSession ran and no startSession since
    arrived,           \* history: number of 'audio' messages received
    captured,          \* history: number of onaudioprocess events
    \* ---- the blob-based useVoiceSession (part_000:728-888)
    blob,              \* the hook's state and refs, and the objects it made
    blobStarts,        \* the startSession invocations: [pc, state]
    \* ---- PCM16 <-> Float32 sample conversion (part_000:660-665, 32-40)
    pcmSample,         \* int16Array[i]: the 16-bit sample being decoded
    floatSample,       \* float32Array[i]: what the decoder stored for it
    int16Sample,       \* what process() writes when given that float
    convPc             \* "idle", "decoded" or "encoded"

workletVars == <<constructed, buffer, bufferWriteIndex, posted, keepAlive, pushed, lastSample, lastIndex, calls, written, idleAt>>

codecVars == <<frame, encBytes, chunk, decBytes, decSamples, codecPc>>

captureVars == <<audioContextRef, workletNodeRef, streamRef, isStartingRef,
                 ctxLive, nodeLive, streamLive, rec, stopRefused, bodies>>

playVars == <<audioQueueRef, isPlayingRef, playbackContextRef, playCtxs,
              sources, loops, enqueued, dropped, cleanups, texts, stops>>

voiceVars == <<isConnected, isSessionActive, isRecording, wsRef, sockets,
               sessionIdRef, lastNow, sent, startCalls, toast, frames,
               micFailed>>

keepaliveVars == <<effectSaw, pingInterval, pingStates, pongs>>

sessionVars == <<live, startSessions, stopCalled, arrived, captured>>

blobVars == <<blob, blobStarts>>

convVars == <<pcmSample, floatSample, int16Sample, convPc>>

vars == <<workletVars, codecVars, captureVars, playVars, voiceVars,
          keepaliveVars, sessionVars, blobVars, convVars>>

\* what each component's actions leave alone
outsideWorklet == <<codecVars, captureVars, playVars, voiceVars, keepaliveVars,
                    sessionVars, blobVars, convVars>>
outsideCodec == <<workletVars, captureVars, playVars, voiceVars, keepaliveVars,
                  sessionVars, blobVars, convVars>>
outsidePCM == <<workletVars, codecVars, voiceVars, keepaliveVars, sessionVars,
                blobVars, convVars>>
outsideHooks == <<workletVars, codecVars, sessionVars, blobVars, convVars>>
outsideVoice == <<outsideHooks, keepaliveVars>>
outsideSession == <<workletVars, codecVars, captureVars, playVars, voiceVars,
                    keepaliveVars, blobVars, convVars>>
outsideBlob == <<workletVars, codecVars, captureVars, playVars, voiceVars,
                 keepaliveVars, sessionVars, convVars>>
outsideConv == <<workletVars, codecVars, captureVars, playVars, voiceVars,
                 keepaliveVars, sessionVars, blobVars>>

-----------------------------------------------------------------------------
(* Numbers.  A Float32 sample is a dyadic rational n/d (d > 0), NaN or an  *)
(* infinity; the products with 0x8000 / 0x7FFF are exact in a double, so   *)
(* exact rational arithmetic models them.                                  *)

Num(n, d) == [k |-> "num", n |-> n, d |-> d]
NaN == [k |-> "nan", n |-> 0, d |-> 1]
PosInf == [k |-> "inf", n |-> 1, d |-> 1]
NegInf == [k |-> "inf", n |-> -1, d |-> 1]

\* x < y for two finite rationals
RatLess(x, y) == x.n * y.d < y.n * x.d

\* Math.min(1, x)
MathMin1(x) ==
    IF x.k = "nan" THEN NaN
    ELSE IF x.k = "inf" THEN (IF x.n > 0 THEN Num(1, 1) ELSE x)
    ELSE IF RatLess(Num(1, 1), x) THEN Num(1, 1) ELSE x

\* Math.max(-1, x)
MathMaxNeg1(x) ==
    IF x.k = "nan" THEN NaN
    ELSE IF x.k = "inf" THEN (IF x.n < 0 THEN Num(-1, 1) ELSE x)
    ELSE IF RatLess(x, Num(-1, 1)) THEN Num(-1, 1) ELSE x

\* Math.max(-1, Math.min(1, x))
Clamp(x) == MathMaxNeg1(MathMin1(x))

\* integer part of n/d, rounding toward zero (d > 0)
TruncDiv(n, d) == IF n >= 0 THEN n \div d ELSE -((-n) \div d)

\* ToInt16 of an integer: wrap modulo 2^16 into [-32768, 32767]
WrapInt16(x) == ((x + 32768) % 65536) - 32768

\* the store of a double into an Int16Array element: NaN and infinities
\* become 0, a finite value is truncated toward zero and wrapped
StoreInt16(x) ==
    IF x.k # "num" THEN 0 ELSE WrapInt16(TruncDiv(x.n, x.d))

\* sample < 0 ? sample * 0x8000 : sample * 0x7FFF
ScaleAlt(s) ==
    IF s.k # "num" THEN s ELSE Num(s.n * 32768, s.d)

Scale(s) ==
    IF s.k # "num" THEN s
    ELSE IF s.n < 0 THEN Num(s.n * 32768, s.d) ELSE Num(s.n * 32767, s.d)

\* the Int16 value process() writes for input sample x
FloatToInt16(x) == StoreInt16(Scale(Clamp(x)))

-----------------------------------------------------------------------------
(* AudioRecorderWorklet                                                    *)

BufferLen == 2048

MaxProcessCalls == 3

ZeroBuffer == [j \in 0..(BufferLen - 1) |-> 0]

\* the input sample values the model feeds one at a time
Samples ==
    { Num(0, 1), Num(1, 2), Num(-1, 2), Num(1, 1), Num(-1, 1),
      Num(5, 4), Num(-2, 1), Num(-1, 32768), NaN, PosInf, NegInf }

\* a block (one channel of one process() call): a sequence of samples
ConstBlock(len, s) == [i \in 1..len |-> s]
HeadBlock(len, s) == [i \in 1..len |-> IF i = 1 THEN s ELSE Num(0, 1)]

Blocks ==
    { ConstBlock(128, Num(0, 1)), ConstBlock(2047, Num(1, 1)),
      ConstBlock(4096, Num(0, 1)), HeadBlock(2048, Num(1, 2)) }
    \cup {ConstBlock(1, s) : s \in Samples}

\* The for loop of process() over inputChannel[off..], taken one run of
\* samples at a time: a run is the samples that fit before the write index
\* reaches buffer.length.  Every sample of the run is converted and written
\* at bufferWriteIndex++ ; the test "bufferWriteIndex >= buffer.length" can
\* only succeed after the last sample of a run, where the buffer is copied,
\* posted and the index reset.  st = [buffer, idx, posted].
PushRunNoReset(st, in, off, n) ==
    LET buf == [j \in 0..(BufferLen - 1) |->
                   IF j >= st.idx /\ j < st.idx + n
                   THEN FloatToInt16(in[off + (j - st.idx)])
                   ELSE st.buffer[j]]
        idx == st.idx + n
    IN  IF idx >= BufferLen
        THEN [buffer |-> buf, idx |-> BufferLen - 1, posted |-> Append(st.posted, buf)]
        ELSE [buffer |-> buf, idx |-> idx, posted |-> st.posted]

\* the same run with the index set to 1 instead of 0 after a frame is posted
PushRunResetOne(st, in, off, n) ==
    LET buf == [j \in 0..(BufferLen - 1) |->
                   IF j >= st.idx /\ j < st.idx + n
                   THEN FloatToInt16(in[off + (j - st.idx)])
                   ELSE st.buffer[j]]
        idx == st.idx + n
    IN  IF idx >= BufferLen
        THEN [buffer |-> buf, idx |-> 1, posted |-> Append(st.posted, buf)]
        ELSE [buffer |-> buf, idx |-> idx, posted |-> st.posted]

\* the same run with postMessage given this.buffer itself instead of
\* new Int16Array(this.buffer): every frame handed out is the live buffer
PushRunAlias(st, in, off, n) ==
    LET buf == [j \in 0..(BufferLen - 1) |->
                   IF j >= st.idx /\ j < st.idx + n
                   THEN FloatToInt16(in[off + (j - st.idx)])
                   ELSE st.buffer[j]]
        idx == st.idx + n
        old == [k \in 1..Len(st.posted) |-> buf]
    IN  IF idx >= BufferLen
        THEN [buffer |-> buf, idx |-> 0, posted |-> Append(old, buf)]
        ELSE [buffer |-> buf, idx |-> idx, posted |-> old]

PushRun(st, in, off, n) ==
    LET buf == [j \in 0..(BufferLen - 1) |->
                   IF j >= st.idx /\ j < st.idx + n
                   THEN FloatToInt16(in[off + (j - st.idx)])
                   ELSE st.buffer[j]]
        idx == st.idx + n
    IN  IF idx >= BufferLen
        THEN [buffer |-> buf, idx |-> 0, posted |-> Append(st.posted, buf)]
        ELSE [buffer |-> buf, idx |-> idx, posted |-> st.posted]

Min(a, b) == IF a < b THEN a ELSE b

RECURSIVE PushFrom(_, _, _, _, _)
PushFrom(buf, idx, post, in, off) ==
    IF off > Len(in) THEN [buffer |-> buf, idx |-> idx, posted |-> post]
    ELSE LET n == Min(BufferLen - idx, Len(in) - off + 1)
             st == PushRun([buffer |-> buf, idx |-> idx, posted |-> post], in, off, n)
         IN  PushFrom(st.buffer, st.idx, st.posted, in, off + n)

\* the hooks as first rendered, nothing called yet
Init ==
    \* no AudioRecorderWorklet yet (one is made by new AudioWorkletNode)
    /\ constructed = FALSE
    /\ buffer = <<>>
    /\ bufferWriteIndex = 0
    /\ posted = <<>>
    /\ keepAlive = TRUE
    /\ pushed = 0
    /\ lastSample = Num(0, 1)
    /\ lastIndex = -1
    /\ calls = 0
    /\ written = <<>>
    /\ idleAt = -1
    \* no frame in the codec
    /\ frame = <<>>
    /\ encBytes = <<>>
    /\ chunk = <<>>
    /\ decBytes = <<>>
    /\ decSamples = <<>>
    /\ codecPc = "idle"
    \* usePCMAudio refs
    /\ audioContextRef = FALSE
    /\ workletNodeRef = FALSE
    /\ streamRef = FALSE
    /\ isStartingRef = FALSE
    /\ ctxLive = 0
    /\ nodeLive = 0
    /\ streamLive = 0
    /\ rec = [pc |-> "none", owner |-> 0]
    /\ stopRefused = FALSE
    /\ bodies = 0
    /\ audioQueueRef = <<>>
    /\ isPlayingRef = FALSE
    /\ playbackContextRef = 0
    /\ playCtxs = <<>>
    /\ sources = <<>>
    /\ loops = {}
    /\ enqueued = 0
    /\ dropped = {}
    /\ cleanups = 0
    /\ texts = <<>>
    /\ stops = 0
    \* useVoice state and refs
    /\ isConnected = FALSE
    /\ isSessionActive = FALSE
    /\ isRecording = FALSE
    /\ wsRef = 0
    /\ sockets = <<>>
    /\ sessionIdRef = 0
    /\ lastNow = 0
    /\ sent = <<>>
    /\ startCalls = <<>>
    /\ toast = ""
    /\ frames = 0
    /\ micFailed = FALSE
    /\ effectSaw = FALSE
    /\ pingInterval = FALSE
    /\ pingStates = {}
    /\ pongs = 0
    \* useVoiceSession: useState / useRef initial values, nothing created yet
    /\ live = [state |-> "idle", errorMessage |-> "", wsRef |-> 0,
               mediaStreamRef |-> 0, audioContextRef |-> 0, processorRef |-> 0,
               audioQueueRef |-> 0, isPlayingRef |-> FALSE,
               sockets |-> <<>>, streams |-> <<>>, contexts |-> <<>>,
               processors |-> <<>>, playing |-> 0, audible |-> 0,
               orphaned |-> 0, wire |-> <<>>]
    /\ startSessions = <<>>
    /\ stopCalled = FALSE
    /\ arrived = 0
    /\ blob = [state |-> "idle", errorMessage |-> "", wsRef |-> 0,
               sockets |-> <<>>, mediaStreamRef |-> "none",
               mediaRecorderRef |-> "none", audioContextRef |-> "none",
               plays |-> <<>>]
    /\ blobStarts = <<>>
    \* no sample in the converters
    /\ pcmSample = 0
    /\ floatSample = [sign |-> 1, m |-> 0, e |-> 0]
    /\ int16Sample = 0
    /\ convPc = "idle"
    /\ captured = 0

\* constructor()
Construct ==
    /\ ~constructed
    /\ constructed' = TRUE
    /\ buffer' = ZeroBuffer
    /\ bufferWriteIndex' = 0
    /\ UNCHANGED <<posted, keepAlive, pushed, lastSample, lastIndex, calls, written, idleAt>>
    /\ UNCHANGED outsideWorklet

\* process() with inputs[0][0] = in
Process(in) ==
    /\ constructed
    /\ calls < MaxProcessCalls
    /\ LET st == PushFrom(buffer, bufferWriteIndex, posted, in, 1)
       IN  /\ buffer' = st.buffer
           /\ bufferWriteIndex' = st.idx
           /\ posted' = st.posted
    /\ keepAlive' = TRUE
    /\ pushed' = pushed + Len(in)
    /\ lastSample' = IF Len(in) > 0 THEN in[Len(in)] ELSE lastSample
    /\ lastIndex' = IF Len(in) > 0 THEN (bufferWriteIndex + Len(in) - 1) % BufferLen
                     ELSE lastIndex
    /\ calls' = calls + 1
    /\ written' = written \o [i \in 1..Len(in) |-> FloatToInt16(in[i])]
    /\ UNCHANGED <<constructed, idleAt>>
    /\ UNCHANGED outsideWorklet

\* a process() that starts the frame over when a call has no input
ProcessNoInputReset ==
    /\ constructed
    /\ calls < MaxProcessCalls
    /\ keepAlive' = TRUE
    /\ calls' = calls + 1
    /\ idleAt' = bufferWriteIndex
    /\ bufferWriteIndex' = 0
    /\ UNCHANGED <<constructed, buffer, posted, pushed, lastSample,
                   lastIndex, written>>
    /\ UNCHANGED outsideWorklet

\* process() with no input (inputs[0] or inputs[0][0] missing)
ProcessNoInput ==
    /\ constructed
    /\ calls < MaxProcessCalls
    /\ keepAlive' = TRUE
    /\ calls' = calls + 1
    /\ idleAt' = bufferWriteIndex
    /\ UNCHANGED <<constructed, buffer, bufferWriteIndex, posted, pushed,
                   lastSample, lastIndex, written>>
    /\ UNCHANGED outsideWorklet

WorkletNext ==
    \/ Construct
    \/ \E in \in Blocks : Process(in)
    \/ ProcessNoInput

SpecWorklet == Init /\ [][WorkletNext]_vars

-----------------------------------------------------------------------------
(* Claims about AudioRecorderWorklet                                       *)

\* C6: a frame is posted exactly when 2048 samples have accumulated since
\* the last posted frame: after N pushed samples exactly floor(N/2048)
\* frames of length 2048 have been posted, the write index holds the
\* N mod 2048 samples not yet posted, and 4096 zero samples pushed into a
\* fresh worklet give two all-zero frames.
C6_FrameLength ==
    /\ Len(posted) = pushed \div BufferLen
    /\ bufferWriteIndex = pushed % BufferLen
    /\ constructed => DOMAIN buffer = 0..(BufferLen - 1)
    /\ \A k \in 1..Len(posted) : DOMAIN posted[k] = 0..(BufferLen - 1)
    /\ (calls = 1 /\ pushed = 2 * BufferLen /\ lastSample = Num(0, 1))
          => posted = <<ZeroBuffer, ZeroBuffer>>

C6_Witness ==
    /\ calls = 1
    /\ pushed = 2 * BufferLen
    /\ posted = <<ZeroBuffer, ZeroBuffer>>

\* C7: every integer written lies in [-32768, 32767]; an input below -1
\* is written as -32768 and one above 1 as 32767; an input s in [-1, 1] is
\* written as s*32768 (s < 0) or s*32767 (s >= 0) truncated to an integer,
\* so 0.5 is written as 16383.
InInt16(v) == v \in -32768..32767

C7_ClampCorrect ==
    /\ \A j \in DOMAIN buffer : InInt16(buffer[j])
    /\ \A k \in 1..Len(posted) : \A j \in 0..(BufferLen - 1) : InInt16(posted[k][j])
    /\ lastIndex >= 0 =>
         LET s == lastSample
             v == buffer[lastIndex]
         IN  /\ (s.k = "inf" /\ s.n < 0) => v = -32768
             /\ (s.k = "inf" /\ s.n > 0) => v = 32767
             /\ (s.k = "num" /\ s.n < -s.d) => v = -32768
             /\ (s.k = "num" /\ s.n > s.d) => v = 32767
             /\ (s.k = "num" /\ s.n >= -s.d /\ s.n < 0)
                   => v = -((-s.n * 32768) \div s.d)
             /\ (s.k = "num" /\ s.n >= 0 /\ s.n <= s.d)
                   => v = (s.n * 32767) \div s.d
             /\ s = Num(1, 2) => v = 16383
    \* 0.5 followed by 2047 zeros, pushed into a fresh worklet
    /\ (calls = 1 /\ pushed = BufferLen) =>
          /\ posted[1][0] = 16383
          /\ \A j \in 1..(BufferLen - 1) : posted[1][j] = 0

C7_Witness ==
    /\ calls = 2
    /\ pushed = BufferLen + 1
    /\ posted[1][0] = 16383
    /\ lastSample = Num(5, 4)
    /\ lastIndex = 0
    /\ buffer[0] = 32767

-----------------------------------------------------------------------------
(* Codec: DataView.setInt16(.., true) + btoa on the capture side,          *)
(* atob + charCodeAt + Int16Array view on the playback side.               *)

MaxFrameLen == 3

\* the Int16 values the model puts in a frame
CodecSamples == {0, 1, -1, 255, 256, -256, 32767, -32768, 16383, -12345}

\* the two's-complement 16-bit pattern of an Int16 value
ToUint16(v) == IF v < 0 THEN v + 65536 ELSE v

\* view.setInt16(i * 2, int16Array[i], true) for every i: the low byte at
\* offset 2i, the high byte at offset 2i + 1 (offsets 0-based, Seq 1-based)
SerializeBE(f) ==
    [b \in 1..(2 * Len(f)) |->
        LET u == ToUint16(f[(b + 1) \div 2])
        IN  IF b % 2 = 1 THEN u \div 256 ELSE u % 256]

Serialize(f) ==
    [b \in 1..(2 * Len(f)) |->
        LET u == ToUint16(f[(b + 1) \div 2])
        IN  IF b % 2 = 1 THEN u % 256 ELSE u \div 256]

\* the base64 alphabet of btoa / atob; the pad character is "="
Alphabet ==
    << "A", "B", "C", "D", "E", "F", "G", "H", "I", "J", "K", "L", "M",
       "N", "O", "P", "Q", "R", "S", "T", "U", "V", "W", "X", "Y", "Z",
       "a", "b", "c", "d", "e", "f", "g", "h", "i", "j", "k", "l", "m",
       "n", "o", "p", "q", "r", "s", "t", "u", "v", "w", "x", "y", "z",
       "0", "1", "2", "3", "4", "5", "6", "7", "8", "9", "+", "/" >>

Char(six) == Alphabet[six + 1]

IsAlpha(c) == \E i \in 1..64 : Alphabet[i] = c

Sextet(c) == (CHOOSE i \in 1..64 : Alphabet[i] = c) - 1

\* btoa(String.fromCharCode.apply(null, bytes)): every byte is one char of
\* code 0..255, three bytes give four base64 characters, and a last group
\* of one or two bytes is padded with "="
RECURSIVE Btoa(_)
Btoa(bytes) ==
    IF Len(bytes) = 0 THEN <<>>
    ELSE IF Len(bytes) = 1 THEN
        << Char(bytes[1] \div 4), Char((bytes[1] % 4) * 16), "=", "=" >>
    ELSE IF Len(bytes) = 2 THEN
        << Char(bytes[1] \div 4),
           Char((bytes[1] % 4) * 16 + bytes[2] \div 16),
           Char((bytes[2] % 16) * 4), "=" >>
    ELSE
        << Char(bytes[1] \div 4),
           Char((bytes[1] % 4) * 16 + bytes[2] \div 16),
           Char((bytes[2] % 16) * 4 + bytes[3] \div 64),
           Char(bytes[3] % 64) >>
        \o Btoa(SubSeq(bytes, 4, Len(bytes)))

\* atob step 1: a text whose length is a multiple of 4 loses one or two
\* trailing "="
StripPad(t) ==
    IF Len(t) % 4 = 0 /\ Len(t) > 0 /\ t[Len(t)] = "="
    THEN IF t[Len(t) - 1] = "="
         THEN SubSeq(t, 1, Len(t) - 2)
         ELSE SubSeq(t, 1, Len(t) - 1)
    ELSE t

\* atob fails (InvalidCharacterError) when the stripped length is 1 mod 4
\* or a character is outside the alphabet
AtobOk(t) ==
    LET d == StripPad(t)
    IN  /\ Len(d) % 4 # 1
        /\ \A i \in 1..Len(d) : IsAlpha(d[i])

\* the bytes of the stripped text: 6 bits per character, leftover bits of
\* the last group dropped
RECURSIVE DecodeSextets(_)
DecodeSextets(d) ==
    IF Len(d) < 2 THEN <<>>
    ELSE IF Len(d) = 2 THEN
        << Sextet(d[1]) * 4 + Sextet(d[2]) \div 16 >>
    ELSE IF Len(d) = 3 THEN
        << Sextet(d[1]) * 4 + Sextet(d[2]) \div 16,
           (Sextet(d[2]) % 16) * 16 + Sextet(d[3]) \div 4 >>
    ELSE
        << Sextet(d[1]) * 4 + Sextet(d[2]) \div 16,
           (Sextet(d[2]) % 16) * 16 + Sextet(d[3]) \div 4,
           (Sextet(d[3]) % 4) * 64 + Sextet(d[4]) >>
        \o DecodeSextets(SubSeq(d, 5, Len(d)))

\* atob(chunk) followed by bytes[i] = binaryString.charCodeAt(i)
Atob(t) == DecodeSextets(StripPad(t))

\* new Int16Array(bytes.buffer): needs an even byte length (RangeError
\* otherwise); element i is read in platform byte order, little-endian on
\* the platforms browsers run on
ViewOk(bytes) == Len(bytes) % 2 = 0

ViewInt16(bytes) ==
    [i \in 1..(Len(bytes) \div 2) |->
        WrapInt16(bytes[2 * i - 1] + 256 * bytes[2 * i])]

RECURSIVE FramesOfLen(_)
FramesOfLen(n) ==
    IF n = 0 THEN {<<>>}
    ELSE {Append(f, v) : f \in FramesOfLen(n - 1), v \in CodecSamples}

Frames == UNION {FramesOfLen(n) : n \in 0..MaxFrameLen}

\* workletNode.port.onmessage with event.data.data = f: serialize, base64,
\* onAudioChunk(base64)
Encode(f) ==
    /\ codecPc = "idle"
    /\ frame' = f
    /\ encBytes' = Serialize(f)
    /\ chunk' = Btoa(Serialize(f))
    /\ codecPc' = "encoded"
    /\ UNCHANGED <<decBytes, decSamples>>
    /\ UNCHANGED outsideCodec

\* playAudioChunk lines 653-661 applied to the chunk
Decode ==
    /\ codecPc = "encoded"
    /\ IF AtobOk(chunk) /\ ViewOk(Atob(chunk))
       THEN /\ decBytes' = Atob(chunk)
            /\ decSamples' = ViewInt16(Atob(chunk))
            /\ codecPc' = "decoded"
       ELSE /\ codecPc' = "failed"
            /\ UNCHANGED <<decBytes, decSamples>>
    /\ UNCHANGED <<frame, encBytes, chunk>>
    /\ UNCHANGED outsideCodec

CodecNext == (\E f \in Frames : Encode(f)) \/ Decode

SpecCodec == Init /\ [][CodecNext]_vars

\* C8: decoding the chunk the capture side produced never fails, gives
\* back exactly the bytes that were encoded, and those bytes read as
\* little-endian Int16 are the frame's samples.
C8_RoundTrip ==
    /\ codecPc # "failed"
    /\ codecPc # "idle" =>
          /\ Len(encBytes) = 2 * Len(frame)
          /\ \A i \in 1..Len(frame) :
                encBytes[2 * i - 1] + 256 * encBytes[2 * i] = ToUint16(frame[i])
    /\ codecPc = "decoded" =>
          /\ decBytes = encBytes
          /\ decSamples = frame

C8_Witness ==
    /\ codecPc = "decoded"
    /\ frame = <<-32768, 255, -12345>>
    /\ decSamples = frame
    /\ chunk = <<"A", "I", "D", "/", "A", "M", "f", "P">>

-----------------------------------------------------------------------------
(* usePCMAudio playback: playAudioChunk, the onended of a started source,  *)
(* cleanup.  The main context is single-threaded: an action is the code    *)
(* that runs from one event up to the next await.                          *)

MaxChunks == 4

MaxCleanups == 1

MaxStops == 1

\* the base64 texts playAudioChunk is called with: a one-sample chunk, a
\* two-sample chunk, three bytes (not a whole number of Int16), a text
\* atob rejects, and the empty string
PlayTexts ==
    { <<"A", "A", "A", "=">>, <<"/", "/", "8", "A", "g", "A", "=", "=">>,
      <<"A", "A", "A", "A">>, <<"A", "!", "A", "=">>, <<>> }

\* the try block of lines 652-684 reaches source.start() for this chunk:
\* atob accepts it, the bytes are a whole number of Int16 samples (Int16Array
\* throws a RangeError otherwise), createBuffer gets a length of at least 1
\* (NotSupportedError otherwise) and playbackContextRef.current is not null
\* (TypeError otherwise)
StartsPlaying(data, ctx) ==
    /\ AtobOk(data)
    /\ ViewOk(Atob(data))
    /\ Len(ViewInt16(Atob(data))) > 0
    /\ ctx # 0

\* The while loop of lines 648-688 from its test up to the next await:
\* shift the head; skip it when it is the empty string ("if (!chunk)
\* continue"); log and go on when the try block throws; otherwise start a
\* source for it and suspend.  Gives the queue left, the chunk started (or
\* 0 when the queue ran empty and the loop exits) and the ids passed over.
RECURSIVE RunLoopLifo(_, _, _)
RunLoopLifo(queue, ctx, skipped) ==
    IF Len(queue) = 0 THEN [queue |-> queue, start |-> 0, skipped |-> skipped]
    ELSE LET c == queue[Len(queue)]
             rest == SubSeq(queue, 1, Len(queue) - 1)
         IN  IF c.data = <<>> \/ ~StartsPlaying(c.data, ctx)
             THEN RunLoopLifo(rest, ctx, skipped \cup {c.id})
             ELSE [queue |-> rest, start |-> c.id, skipped |-> skipped]

RunLoopAbort(queue, ctx, skipped) ==
    IF Len(queue) = 0 THEN [queue |-> queue, start |-> 0, skipped |-> skipped]
    ELSE LET c == Head(queue)
         IN  IF c.data = <<>> \/ ~StartsPlaying(c.data, ctx)
             THEN [queue |-> Tail(queue), start |-> 0,
                   skipped |-> skipped \cup {c.id}]
             ELSE [queue |-> Tail(queue), start |-> c.id, skipped |-> skipped]

RECURSIVE RunLoop(_, _, _)
RunLoop(queue, ctx, skipped) ==
    IF Len(queue) = 0 THEN [queue |-> queue, start |-> 0, skipped |-> skipped]
    ELSE LET c == Head(queue)
         IN  IF c.data = <<>> \/ ~StartsPlaying(c.data, ctx)
             THEN RunLoop(Tail(queue), ctx, skipped \cup {c.id})
             ELSE [queue |-> Tail(queue), start |-> c.id, skipped |-> skipped]

\* the loop runs from `queue` with context `ctx`, as the loop that was
\* awaiting source `awaited` (0: a loop that is just starting); `srcs` are
\* the sources started so far
LoopStep(queue, ctx, awaited, srcs) ==
    LET r == RunLoop(queue, ctx, {})
    IN  /\ audioQueueRef' = r.queue
        /\ dropped' = dropped \cup r.skipped
        /\ IF r.start # 0
           THEN \* source.start(), then await its onended
                /\ sources' = Append(srcs, [id |-> r.start, ctx |-> ctx,
                                            ended |-> FALSE])
                /\ loops' = (loops \ {awaited}) \cup {Len(srcs) + 1}
                /\ isPlayingRef' = TRUE
           ELSE \* queue empty: the finally block clears the flag
                /\ sources' = srcs
                /\ loops' = loops \ {awaited}
                /\ isPlayingRef' = FALSE

\* the isPlayingRef test of lines 631-634
AlreadyPlayingOff(flag) == FALSE

AlreadyPlaying(flag) == flag

\* playAudioChunk(data): push, return if a loop is running, else set the
\* flag, create the playback context if there is none (ctxOk: the
\* AudioContext constructor succeeds; when it throws the finally block clears
\* the flag and the chunk stays queued) and run the loop to its first await
PlayAudioChunk(data, ctxOk) ==
    /\ enqueued < MaxChunks
    /\ enqueued' = enqueued + 1
    /\ texts' = Append(texts, data)
    /\ LET queue == Append(audioQueueRef, [id |-> enqueued + 1, data |-> data])
       IN  IF AlreadyPlaying(isPlayingRef)
           THEN /\ audioQueueRef' = queue
                /\ UNCHANGED <<isPlayingRef, playbackContextRef, playCtxs,
                               sources, loops, dropped>>
           ELSE IF playbackContextRef = 0 /\ ~ctxOk
           THEN /\ audioQueueRef' = queue
                /\ isPlayingRef' = FALSE
                /\ UNCHANGED <<playbackContextRef, playCtxs, sources, loops,
                               dropped>>
           ELSE LET ctx == IF playbackContextRef = 0 THEN Len(playCtxs) + 1
                           ELSE playbackContextRef
                IN  /\ playbackContextRef' = ctx
                    /\ playCtxs' = IF playbackContextRef = 0
                                   THEN Append(playCtxs, "running")
                                   ELSE playCtxs
                    /\ LoopStep(queue, ctx, 0, sources)
    /\ UNCHANGED <<cleanups, stops, captureVars>>
    /\ UNCHANGED outsidePCM

\* source k is audible: started, not ended, its context not closed
Sounding(k) == ~sources[k].ended /\ playCtxs[sources[k].ctx] = "running"

\* the onended of source k can still be delivered
CanEnd(k) == ~sources[k].ended /\ playCtxs[sources[k].ctx] # "dead"

\* source.onended of source k fires (the buffer played to its end, or the
\* context was closed under it and the platform still delivers the event);
\* resolve() resumes the loop that awaits it
OnEnded(k) ==
    /\ k \in 1..Len(sources)
    /\ CanEnd(k)
    /\ IF k \in loops
       THEN LoopStep(audioQueueRef, playbackContextRef, k,
                     [sources EXCEPT ![k].ended = TRUE])
       ELSE /\ sources' = [sources EXCEPT ![k].ended = TRUE]
            /\ UNCHANGED <<audioQueueRef, dropped, isPlayingRef, loops>>
    /\ UNCHANGED <<playbackContextRef, playCtxs, enqueued, cleanups, texts,
                   stops, captureVars>>
    /\ UNCHANGED outsidePCM

\* the release step of stopRecording that throws, if any: disconnect() of
\* the worklet node, close() of the capture context, stop() of a track
StopThrows == {"none", "node", "context", "stream"}

\* stopRecording(): refuses while a start is in progress, else releases the
\* worklet node, the capture context and the microphone stream inside one
\* try block: when a step throws, the steps after it are not run and the
\* catch logs.  (A step whose ref is null is skipped and cannot throw.)
StopRecordingEffect(throws) ==
    IF isStartingRef
    THEN /\ stopRefused' = TRUE
         /\ UNCHANGED <<audioContextRef, workletNodeRef, streamRef,
                        isStartingRef, ctxLive, nodeLive, streamLive, rec,
                        bodies>>
    ELSE LET nodeThrows == throws = "node" /\ workletNodeRef
             ctxRuns == ~nodeThrows
             ctxThrows == ctxRuns /\ throws = "context" /\ audioContextRef
             streamRuns == ctxRuns /\ ~ctxThrows
             streamThrows == streamRuns /\ throws = "stream" /\ streamRef
         IN  /\ stopRefused' = FALSE
             /\ workletNodeRef' = (workletNodeRef /\ nodeThrows)
             /\ nodeLive' = IF workletNodeRef /\ ~nodeThrows
                            THEN nodeLive - 1 ELSE nodeLive
             /\ audioContextRef' = (audioContextRef /\ (~ctxRuns \/ ctxThrows))
             /\ ctxLive' = IF audioContextRef /\ ctxRuns /\ ~ctxThrows
                           THEN ctxLive - 1 ELSE ctxLive
             /\ streamRef' = (streamRef /\ (~streamRuns \/ streamThrows))
             /\ streamLive' = IF streamRef /\ streamRuns /\ ~streamThrows
                              THEN streamLive - 1 ELSE streamLive
             /\ UNCHANGED <<isStartingRef, rec, bodies>>

\* what close() can leave of a context: its sources that have not ended
\* still get their ended event ("closed"), or the platform, which no longer
\* renders them, never delivers it ("dead"); the Web Audio API promises
\* neither
ClosedAs(ctx) ==
    IF \E k \in 1..Len(sources) : sources[k].ctx = ctx /\ ~sources[k].ended
    THEN {"closed", "dead"}
    ELSE {"closed"}

\* cleanup(): stopRecording(), then close and forget the playback context
CleanupEffect(throws) ==
    /\ StopRecordingEffect(throws)
    /\ IF playbackContextRef # 0
       THEN /\ \E c \in ClosedAs(playbackContextRef) :
                   playCtxs' = [playCtxs EXCEPT ![playbackContextRef] = c]
            /\ playbackContextRef' = 0
       ELSE UNCHANGED <<playbackContextRef, playCtxs>>
    /\ UNCHANGED <<audioQueueRef, isPlayingRef, sources, loops, enqueued,
                   dropped, texts>>

Cleanup(throws) ==
    /\ cleanups < MaxCleanups
    /\ cleanups' = cleanups + 1
    /\ CleanupEffect(throws)
    /\ UNCHANGED stops
    /\ UNCHANGED outsidePCM

\* stopRecording() called on the hook (endCall calls it as
\* stopPCMRecording and calls nothing else of usePCMAudio)
StopRecording(throws) ==
    /\ stops < MaxStops
    /\ stops' = stops + 1
    /\ StopRecordingEffect(throws)
    /\ UNCHANGED <<audioQueueRef, isPlayingRef, playbackContextRef, playCtxs,
                   sources, loops, enqueued, dropped, cleanups, texts>>
    /\ UNCHANGED outsidePCM

PlaybackNext ==
    \/ \E data \in PlayTexts, ctxOk \in BOOLEAN : PlayAudioChunk(data, ctxOk)
    \/ \E k \in 1..Len(sources) : OnEnded(k)
    \/ \E throws \in StopThrows : Cleanup(throws)
    \/ \E throws \in StopThrows : StopRecording(throws)

SpecPlayback == Init /\ [][PlaybackNext]_vars

\* C1: chunks begin playback in the order they were enqueued: the ids of
\* the started sources (ids number the playAudioChunk calls) increase
\* strictly, whatever playAudioChunk, onended and cleanup events interleave.
C1_FifoOrder ==
    \A i, j \in 1..Len(sources) : i < j => sources[i].id < sources[j].id

C1_Witness ==
    /\ Len(sources) = 3
    /\ sources[3].id = 4
    /\ dropped # {}
    /\ \E k \in 1..3 : sources[k].id # k

\* C2: at most one chunk is sounding and at most one playback loop is
\* active; a source is started only after every source started before it
\* has had its onended.
C2_NoOverlap ==
    /\ Cardinality({k \in 1..Len(sources) : Sounding(k)}) <= 1
    /\ Cardinality(loops) <= 1
    /\ \A k \in 1..(Len(sources) - 1) : sources[k].ended

C2_Witness ==
    /\ Len(sources) = 2
    /\ sources[1].ended
    /\ Sounding(2)
    /\ Len(audioQueueRef) = 2
    /\ loops = {2}

-----------------------------------------------------------------------------
(* useVoice: connect / startCall / endCall, the socket's events and the    *)
(* server's envelopes, with the startRecording body of usePCMAudio.        *)

MaxStartCalls == 2

MaxSockets == 2

MaxAudio == 1

\* const maxWait = 5000; const checkInterval = 100
MaxWait == 5000

CheckInterval == 100

\* wsRef.current && wsRef.current.readyState === WebSocket.OPEN
WsOpen == wsRef # 0 /\ sockets[wsRef] = "OPEN"

\* wsRef.current.send(env) on an OPEN socket puts env on the wire; on a
\* CLOSING or CLOSED socket it is dropped silently (on a CONNECTING socket
\* send throws, which the callers below handle in their own branches)
Wire(env) == IF WsOpen THEN Append(sent, env) ELSE sent

\* Date.now() does not go back: the last value again (same millisecond) or
\* a later one
NowValues == IF lastNow = 0 THEN {1} ELSE {lastNow, lastNow + 1}

\* the state the page derives (Index.tsx:39-42)
AppState ==
    IF isRecording THEN "listening"
    ELSE IF isSessionActive THEN "processing" ELSE "idle"

\* connect(): nothing when the current socket is OPEN, else a new WebSocket
\* (readyState CONNECTING) replaces wsRef.current
ConnectEffect ==
    IF WsOpen
    THEN UNCHANGED <<wsRef, sockets>>
    ELSE /\ sockets' = Append(sockets, "CONNECTING")
         /\ wsRef' = Len(sockets) + 1

\* the test of startRecording's guard: if (isStartingRef.current) return
StartInProgressOff(flag) == FALSE

StartInProgress(flag) == flag

\* startRecording past its guard, up to its first await: set the guard,
\* create the capture AudioContext (replacing whatever the ref held) and
\* await audioWorklet.addModule; owner is the startCall invocation that
\* awaits it (0: the hook was called directly)
BeginRecording(owner) ==
    /\ isStartingRef' = TRUE
    /\ audioContextRef' = TRUE
    /\ ctxLive' = ctxLive + 1
    /\ rec' = [pc |-> "addModule", owner |-> owner]
    /\ stopRefused' = FALSE
    /\ bodies' = bodies + 1
    /\ UNCHANGED <<workletNodeRef, streamRef, nodeLive, streamLive>>

\* startCall from "if (isSessionActive)" on, for invocation p whose record
\* is sc[p]; the socket is OPEN here.  startPCMRecording() either returns at
\* its guard (a start is in progress) or sets the guard, creates the capture
\* AudioContext and awaits audioWorklet.addModule.
SessionPart(p, sc, id) ==
    IF sc[p].active
    THEN /\ startCalls' = [sc EXCEPT ![p].pc = "done", ![p].active = FALSE,
                                     ![p].outcome = "already"]
         /\ UNCHANGED <<sessionIdRef, lastNow, sent, isRecording,
                        isSessionActive, captureVars>>
    ELSE /\ sessionIdRef' = id
         /\ lastNow' = id
         /\ sent' = Wire([type |-> "start", sid |-> id, by |-> p])
         /\ IF StartInProgress(isStartingRef)
            THEN /\ isRecording' = TRUE
                 /\ isSessionActive' = TRUE
                 /\ startCalls' = [sc EXCEPT ![p].pc = "done",
                                             ![p].outcome = "started"]
                 /\ UNCHANGED captureVars
            ELSE /\ BeginRecording(p)
                 /\ startCalls' = [sc EXCEPT ![p].pc = "rec"]
                 /\ UNCHANGED <<isRecording, isSessionActive>>

\* startCall(): a new invocation, up to its first await.  It reads the
\* isConnected and isSessionActive of the render it was created in; the
\* record keeps isSessionActive for the test after the wait (active is
\* always FALSE once the invocation is done).
StartCall ==
    /\ Len(startCalls) < MaxStartCalls
    /\ LET p == Len(startCalls) + 1
           sc == Append(startCalls,
                        [pc |-> "sync", active |-> isSessionActive,
                         waited |-> 0,
                         outcome |-> "",
                         overlap |-> \E q \in 1..Len(startCalls) :
                                        startCalls[q].pc # "done"])
       IN  IF ~isConnected \/ ~WsOpen
           THEN /\ WsOpen \/ Len(sockets) < MaxSockets
                /\ ConnectEffect
                /\ IF WsOpen
                   THEN \* the first test of the loop finds the socket OPEN
                        \E id \in NowValues : SessionPart(p, sc, id)
                   ELSE /\ startCalls' = [sc EXCEPT ![p].pc = "poll"]
                        /\ UNCHANGED <<sessionIdRef, lastNow, sent, isRecording,
                                       isSessionActive, captureVars>>
           ELSE /\ UNCHANGED <<wsRef, sockets>>
                /\ \E id \in NowValues : SessionPart(p, sc, id)
    /\ UNCHANGED <<isConnected, toast, frames, playVars>>
    /\ micFailed' = FALSE
    /\ UNCHANGED outsideVoice

\* the test of the while loop: waited < maxWait
KeepWaitingShort(waited) == waited < CheckInterval

KeepWaiting(waited) == waited < MaxWait

\* the test inside the loop: wsRef.current?.readyState === OPEN, then break
LoopBreakNever == FALSE

LoopBreak == WsOpen

\* the setTimeout of invocation p's wait loop fires: waited += checkInterval,
\* then the loop test, the readyState test, and after the loop the final test
Poll(p) ==
    /\ p \in 1..Len(startCalls)
    /\ startCalls[p].pc = "poll"
    /\ LET w == startCalls[p].waited + CheckInterval
       IN  IF KeepWaiting(w) /\ ~LoopBreak
           THEN /\ startCalls' = [startCalls EXCEPT ![p].waited = w]
                /\ UNCHANGED <<sessionIdRef, lastNow, sent, isRecording,
                               isSessionActive, captureVars, toast>>
           ELSE IF ~WsOpen
           THEN \* past the deadline and not OPEN: toast and return
                /\ toast' = "connectFailed"
                /\ startCalls' = [startCalls EXCEPT ![p].pc = "done",
                                                    ![p].waited = w,
                                                    ![p].outcome = "timeout"]
                /\ UNCHANGED <<sessionIdRef, lastNow, sent, isRecording,
                               isSessionActive, captureVars>>
           ELSE /\ \E id \in NowValues :
                      SessionPart(p, [startCalls EXCEPT ![p].waited = 0], id)
                /\ UNCHANGED toast
    /\ UNCHANGED <<isConnected, wsRef, sockets, frames, playVars>>
    /\ UNCHANGED micFailed
    /\ UNCHANGED outsideVoice

\* audioWorklet.addModule resolves
AddModuleDone ==
    /\ rec.pc = "addModule"
    /\ rec' = [rec EXCEPT !.pc = "getUserMedia"]
    /\ UNCHANGED <<audioContextRef, workletNodeRef, streamRef, isStartingRef,
                   ctxLive, nodeLive, streamLive, stopRefused, bodies>>
    /\ UNCHANGED <<voiceVars, playVars>>
    /\ UNCHANGED outsideVoice

\* startRecording throws (addModule or getUserMedia rejected): its catch
\* closes the context and stops the stream it finds in the refs, clears the
\* guard and rethrows; startCall's catch sends { type: 'stop' } when the
\* socket is OPEN, shows the toast for the error and clears both flags
RecordingFailed(kind) ==
    /\ rec.pc \in {"addModule", "getUserMedia"}
    /\ audioContextRef' = FALSE
    /\ ctxLive' = IF audioContextRef THEN ctxLive - 1 ELSE ctxLive
    /\ streamRef' = FALSE
    /\ streamLive' = IF streamRef THEN streamLive - 1 ELSE streamLive
    /\ isStartingRef' = FALSE
    /\ rec' = [pc |-> "none", owner |-> 0]
    /\ bodies' = bodies - 1
    /\ UNCHANGED <<workletNodeRef, nodeLive, stopRefused>>
    /\ IF rec.owner = 0
       THEN UNCHANGED <<sent, toast, isSessionActive, isRecording, startCalls,
                        micFailed>>
       ELSE /\ sent' = IF wsRef # 0 /\ sockets[wsRef] = "OPEN"
                       THEN Append(sent, [type |-> "stop", sid |-> 0,
                                          by |-> rec.owner])
                       ELSE sent
            /\ toast' = kind
            /\ isSessionActive' = FALSE
            /\ isRecording' = FALSE
            /\ startCalls' = [startCalls EXCEPT ![rec.owner].pc = "done",
                                                ![rec.owner].outcome = "micfail"]
            /\ micFailed' = TRUE
    /\ UNCHANGED <<isConnected, wsRef, sockets, sessionIdRef, lastNow, frames>>
    /\ UNCHANGED playVars
    /\ UNCHANGED outsideVoice

\* getUserMedia resolves: the stream, the source and the worklet node are
\* set up, the guard is cleared, and startCall sets both flags
GetUserMediaDone ==
    /\ rec.pc = "getUserMedia"
    /\ audioContextRef
    /\ streamRef' = TRUE
    /\ streamLive' = streamLive + 1
    /\ workletNodeRef' = TRUE
    /\ nodeLive' = nodeLive + 1
    /\ isStartingRef' = FALSE
    /\ rec' = [pc |-> "none", owner |-> 0]
    /\ bodies' = bodies - 1
    /\ UNCHANGED <<audioContextRef, ctxLive, stopRefused>>
    /\ IF rec.owner = 0
       THEN UNCHANGED <<isRecording, isSessionActive, startCalls>>
       ELSE /\ isRecording' = TRUE
            /\ isSessionActive' = TRUE
            /\ startCalls' = [startCalls EXCEPT ![rec.owner].pc = "done",
                                                ![rec.owner].outcome = "started"]
    /\ UNCHANGED <<isConnected, wsRef, sockets, sessionIdRef, lastNow, sent,
                   toast, frames>>
    /\ UNCHANGED playVars
    /\ UNCHANGED micFailed
    /\ UNCHANGED outsideVoice

\* endCall() (no release step of stopPCMRecording throws here: the throws
\* are explored in the capture specification)
EndCall ==
    /\ IF wsRef = 0 \/ sessionIdRef = 0
       THEN \* if (!wsRef.current || !sessionIdRef.current) return
            UNCHANGED <<isRecording, sent, sessionIdRef, isSessionActive,
                        captureVars>>
       ELSE /\ StopRecordingEffect("none")
            /\ isRecording' = FALSE
            /\ IF sockets[wsRef] = "CONNECTING"
               THEN \* send throws InvalidStateError; the catch only logs
                    UNCHANGED <<sent, sessionIdRef, isSessionActive>>
               ELSE /\ sent' = Wire([type |-> "stop", sid |-> sessionIdRef,
                                     by |-> 0])
                    /\ sessionIdRef' = 0
                    /\ isSessionActive' = FALSE
    /\ UNCHANGED <<isConnected, wsRef, sockets, lastNow, startCalls, toast, frames>>
    /\ UNCHANGED playVars
    /\ micFailed' = FALSE
    /\ UNCHANGED outsideVoice

\* connect() called from outside (the hook returns it)
Connect ==
    /\ ~WsOpen
    /\ Len(sockets) < MaxSockets
    /\ ConnectEffect
    /\ UNCHANGED <<isConnected, isSessionActive, isRecording, sessionIdRef,
                   lastNow, sent, startCalls, toast, frames>>
    /\ UNCHANGED <<captureVars, playVars>>
    /\ micFailed' = FALSE
    /\ UNCHANGED outsideVoice

\* disconnect()
Disconnect ==
    /\ wsRef # 0
    /\ sockets' = [sockets EXCEPT ![wsRef] =
                      IF @ = "CLOSED" THEN "CLOSED" ELSE "CLOSING"]
    /\ wsRef' = 0
    /\ isConnected' = FALSE
    /\ isSessionActive' = FALSE
    /\ isRecording' = FALSE
    /\ UNCHANGED <<sessionIdRef, lastNow, sent, startCalls, toast, frames>>
    /\ UNCHANGED <<captureVars, playVars>>
    /\ micFailed' = FALSE
    /\ UNCHANGED outsideVoice

\* ws.onopen of socket s
SocketOpen(s) ==
    /\ s \in 1..Len(sockets)
    /\ sockets[s] = "CONNECTING"
    /\ sockets' = [sockets EXCEPT ![s] = "OPEN"]
    /\ isConnected' = TRUE
    /\ UNCHANGED <<isSessionActive, isRecording, wsRef, sessionIdRef, lastNow,
                   sent, startCalls, toast, frames>>
    /\ UNCHANGED <<captureVars, playVars>>
    /\ UNCHANGED micFailed
    /\ UNCHANGED outsideVoice

\* ws.onerror of socket s: the connection failed or broke; onclose follows
SocketError(s) ==
    /\ s \in 1..Len(sockets)
    /\ sockets[s] \in {"CONNECTING", "OPEN"}
    /\ sockets' = [sockets EXCEPT ![s] = "CLOSING"]
    /\ toast' = "wsError"
    /\ UNCHANGED <<isConnected, isSessionActive, isRecording, wsRef,
                   sessionIdRef, lastNow, sent, startCalls, frames>>
    /\ UNCHANGED <<captureVars, playVars>>
    /\ UNCHANGED micFailed
    /\ UNCHANGED outsideVoice

\* ws.onclose of socket s
SocketClose(s) ==
    /\ s \in 1..Len(sockets)
    /\ sockets[s] # "CLOSED"
    /\ sockets' = [sockets EXCEPT ![s] = "CLOSED"]
    /\ isConnected' = FALSE
    /\ isSessionActive' = FALSE
    /\ isRecording' = FALSE
    /\ UNCHANGED <<wsRef, sessionIdRef, lastNow, sent, startCalls, toast, frames>>
    /\ UNCHANGED <<captureVars, playVars>>
    /\ UNCHANGED micFailed
    /\ UNCHANGED outsideVoice

\* the envelope types ws.onmessage tells apart, audio answers aside
ServerTypes == {"session_started", "session_stopped", "error", "pong"}

\* ws.onmessage of socket s with an envelope of type t (the server sends
\* a 'pong' in answer to a 'ping' only)
OnMessage(s, t) ==
    /\ s \in 1..Len(sockets)
    /\ sockets[s] = "OPEN"
    /\ t = "pong" => pongs < Cardinality({i \in DOMAIN sent : sent[i].type = "ping"})
    /\ pongs' = IF t = "pong" THEN pongs + 1 ELSE pongs
    /\ UNCHANGED <<effectSaw, pingInterval, pingStates>>
    /\ isSessionActive' = IF t = "session_started" THEN TRUE
                          ELSE IF t = "session_stopped" THEN FALSE
                          ELSE isSessionActive
    /\ isRecording' = IF t = "session_stopped" THEN FALSE ELSE isRecording
    /\ toast' = IF t = "error" THEN "serverError" ELSE toast
    /\ UNCHANGED <<isConnected, wsRef, sockets, sessionIdRef, lastNow, sent,
                   startCalls, frames>>
    /\ UNCHANGED <<captureVars, playVars>>
    /\ UNCHANGED micFailed
    /\ UNCHANGED outsideHooks

\* a live worklet node posts a frame: onAudioChunk(base64PCM)
OnAudioChunk ==
    /\ nodeLive > 0
    /\ frames < MaxAudio
    /\ frames' = frames + 1
    /\ sent' = IF WsOpen /\ sessionIdRef # 0
               THEN Append(sent, [type |-> "audio", sid |-> sessionIdRef, by |-> 0])
               ELSE sent
    /\ UNCHANGED <<isConnected, isSessionActive, isRecording, wsRef, sockets,
                   sessionIdRef, lastNow, startCalls, toast>>
    /\ UNCHANGED <<captureVars, playVars>>
    /\ UNCHANGED micFailed
    /\ UNCHANGED outsideVoice

MicToasts == {"micDenied", "micNotFound", "micFailed"}

VoiceNext ==
    \/ StartCall
    \/ \E p \in 1..Len(startCalls) : Poll(p)
    \/ AddModuleDone
    \/ \E t \in MicToasts : RecordingFailed(t)
    \/ GetUserMediaDone
    \/ EndCall
    \/ Connect
    \/ Disconnect
    \/ \E s \in 1..Len(sockets) : SocketOpen(s)
    \/ \E s \in 1..Len(sockets) : SocketError(s)
    \/ \E s \in 1..Len(sockets) : SocketClose(s)
    \/ \E s \in 1..Len(sockets), t \in ServerTypes : OnMessage(s, t)
    \/ OnAudioChunk

SpecVoice == Init /\ [][VoiceNext]_vars

\* the envelopes of one type put on the wire so far
SentOfType(t) == {i \in DOMAIN sent : sent[i].type = t}

\* the session ids that 'start' envelopes carried
StartIds == {sent[i].sid : i \in SentOfType("start")}

\* C3 (as claimed): when a startCall was invoked before an earlier one had
\* completed, the two put no more than one 'start' envelope on the wire
\* and create no more than one session id.
C3_OneStart ==
    (\E q \in DOMAIN startCalls : startCalls[q].overlap)
        => /\ Cardinality(SentOfType("start")) <= 1
           /\ Cardinality(StartIds) <= 1

\* C5 (as claimed): once a stop that came while startRecording was in
\* progress and that startRecording have both finished, the microphone
\* stream, the worklet node and the capture AudioContext are released.
C5_StopWins ==
    (stopRefused /\ ~isStartingRef /\ rec.pc = "none")
        => /\ ~streamRef /\ ~workletNodeRef /\ ~audioContextRef
           /\ streamLive = 0 /\ nodeLive = 0 /\ ctxLive = 0

\* the invocations of startCall that gave up waiting for the socket
TimedOut == {p \in DOMAIN startCalls : startCalls[p].outcome = "timeout"}

-----------------------------------------------------------------------------
(* The Live-API useVoiceSession hook.  live holds the hook's state and     *)
(* refs under their own names (a ref is 0 for null, else the index of the  *)
(* object), and the objects the hook has created: sockets [rs, state]      *)
(* (readyState, and the state its handlers closed over), streams ("live" / *)
(* "stopped"), contexts ("running" / "closed"), processors [on, ctx],      *)
(* playing (buffer sources started and not yet ended), audible (those of   *)
(* them in the context audioContextRef holds, which is running), orphaned  *)
(* (those in a running context the ref no longer holds), wire (what was    *)
(* passed to send on an OPEN socket).  audioQueueRef is the queue length.  *)

MaxSessions == 2

MaxArrived == 3

MaxCaptured == 1

\* wsRef.current?.readyState === WebSocket.OPEN
LiveOpen(r) == r.wsRef # 0 /\ r.sockets[r.wsRef].rs = "OPEN"

\* no usable AudioContext: !audioContextRef.current || state === "closed"
NoContext(r) == r.audioContextRef = 0 \/ r.contexts[r.audioContextRef] = "closed"

cleanup(r) ==
    LET a == IF r.processorRef # 0
             THEN [r EXCEPT !.processors[r.processorRef].on = FALSE,
                            !.processorRef = 0]
             ELSE r
        b == IF a.mediaStreamRef # 0
             THEN [a EXCEPT !.streams[a.mediaStreamRef] = "stopped",
                            !.mediaStreamRef = 0]
             ELSE a
        c == IF LiveOpen(b)
             THEN [b EXCEPT !.wire = Append(@, [type |-> "end", sock |-> b.wsRef]),
                            !.sockets[b.wsRef].rs = "CLOSING",
                            !.wsRef = 0]
             ELSE b
        d == IF ~NoContext(c)
             THEN [c EXCEPT !.contexts[c.audioContextRef] = "closed",
                            !.audioContextRef = 0,
                            !.audible = 0]
             ELSE c
    IN  [d EXCEPT !.audioQueueRef = 0, !.isPlayingRef = FALSE]

playNextInQueue(r) ==
    IF r.audioQueueRef = 0
    THEN [r EXCEPT !.isPlayingRef = FALSE,
                   !.state = IF LiveOpen(r) THEN "listening" ELSE @]
    ELSE IF NoContext(r)
    THEN [r EXCEPT !.isPlayingRef = FALSE]
    ELSE [r EXCEPT !.isPlayingRef = TRUE,
                   !.audioQueueRef = @ - 1,
                   !.playing = @ + 1,
                   !.audible = @ + 1]

\* playable: the bytes make an Int16Array of at least one sample (else
\* new Int16Array or createBuffer throws and the catch sets "listening")
playPCMAudio(r, playable) ==
    LET a == [r EXCEPT !.state = "speaking"]
        b == IF NoContext(a)
             THEN [a EXCEPT !.contexts = Append(@, "running"),
                            !.audioContextRef = Len(a.contexts) + 1]
             ELSE a
        c == [b EXCEPT !.audioQueueRef = @ + 1]
    IN  IF ~playable THEN [b EXCEPT !.state = "listening"]
        ELSE IF c.isPlayingRef THEN c
        ELSE playNextInQueue(c)

startRecording(r) ==
    IF r.mediaStreamRef = 0 \/ r.wsRef = 0 \/ r.audioContextRef = 0
    THEN r
    ELSE [r EXCEPT !.processors = Append(@, [on |-> TRUE, ctx |-> r.audioContextRef]),
                   !.processorRef = Len(r.processors) + 1,
                   !.state = "listening"]

\* startSession(), up to its await of getUserMedia
startSession ==
    /\ Len(startSessions) < MaxSessions
    /\ live' = [live EXCEPT !.state = "connecting", !.errorMessage = ""]
    /\ startSessions' = Append(startSessions,
                               [pc |-> "getUserMedia", state |-> live.state,
                                sock |-> 0, stream |-> 0])
    /\ stopCalled' = FALSE
    /\ UNCHANGED <<arrived, captured>>
    /\ UNCHANGED outsideSession

\* getUserMedia resolves for invocation i: the stream, a new AudioContext
\* and a new WebSocket go into the refs
GotUserMedia(i) ==
    /\ i \in DOMAIN startSessions
    /\ startSessions[i].pc = "getUserMedia"
    /\ live' = [live EXCEPT
                  !.streams = Append(@, "live"),
                  !.mediaStreamRef = Len(live.streams) + 1,
                  !.contexts = Append(@, "running"),
                  !.audioContextRef = Len(live.contexts) + 1,
                  !.orphaned = @ + live.audible,
                  !.audible = 0,
                  !.sockets = Append(@, [rs |-> "CONNECTING",
                                         state |-> startSessions[i].state]),
                  !.wsRef = Len(live.sockets) + 1]
    /\ startSessions' = [startSessions EXCEPT
                           ![i].pc = "done",
                           ![i].sock = Len(live.sockets) + 1,
                           ![i].stream = Len(live.streams) + 1]
    /\ UNCHANGED <<stopCalled, arrived, captured>>
    /\ UNCHANGED outsideSession

\* getUserMedia rejects for invocation i: the catch of startSession
NoUserMedia(i) ==
    /\ i \in DOMAIN startSessions
    /\ startSessions[i].pc = "getUserMedia"
    /\ live' = cleanup([live EXCEPT !.errorMessage = "noMicrophone",
                                    !.state = "error"])
    /\ startSessions' = [startSessions EXCEPT ![i].pc = "done"]
    /\ UNCHANGED <<stopCalled, arrived, captured>>
    /\ UNCHANGED outsideSession

\* the states C4 names for a stopSession call
StopStates == {"connecting", "listening", "speaking"}

stopSession ==
    /\ live' = cleanup([live EXCEPT !.state = "idle"])
    /\ stopCalled' = (stopCalled \/ live.state \in StopStates)
    /\ UNCHANGED <<startSessions, arrived, captured>>
    /\ UNCHANGED outsideSession

\* toggleSession(): state is the state of the current render
toggleSession ==
    IF live.state \in {"idle", "error"} THEN startSession ELSE stopSession

\* ws.onopen of socket s
SessionOpen(s) ==
    /\ s \in DOMAIN live.sockets
    /\ live.sockets[s].rs = "CONNECTING"
    /\ live' = startRecording([live EXCEPT !.sockets[s].rs = "OPEN"])
    /\ UNCHANGED <<startSessions, stopCalled, arrived, captured>>
    /\ UNCHANGED outsideSession

\* ws.onerror of socket s: the connection has failed (readyState is no
\* longer OPEN when the event is fired)
SessionError(s) ==
    /\ s \in DOMAIN live.sockets
    /\ live.sockets[s].rs \in {"CONNECTING", "OPEN"}
    /\ live' = cleanup([live EXCEPT !.sockets[s].rs = "CLOSING",
                                    !.errorMessage = "connection",
                                    !.state = "error"])
    /\ UNCHANGED <<startSessions, stopCalled, arrived, captured>>
    /\ UNCHANGED outsideSession

\* ws.onclose of socket s; state in its test is the state startSession
\* closed over
SessionClose(s) ==
    /\ s \in DOMAIN live.sockets
    /\ live.sockets[s].rs # "CLOSED"
    /\ LET r == [live EXCEPT !.sockets[s].rs = "CLOSED"]
       IN  live' = cleanup(IF live.sockets[s].state # "error"
                           THEN [r EXCEPT !.state = "idle"]
                           ELSE r)
    /\ UNCHANGED <<startSessions, stopCalled, arrived, captured>>
    /\ UNCHANGED outsideSession

\* the message types ws.onmessage tells apart; "audio" with bytes that can
\* be played and with bytes that cannot; "error" with a message text and
\* with none (message.message undefined or ""); "other" for the default
\* branch and for a message that fails to parse or to decode
MessageTypes == {"session_started", "audio", "audio_unplayable",
                 "input_transcript", "output_transcript", "tool_call",
                 "error", "error_blank", "other"}

\* ws.onmessage of socket s (messages are delivered on an OPEN socket only)
SessionMessage(s, t) ==
    /\ s \in DOMAIN live.sockets
    /\ live.sockets[s].rs = "OPEN"
    /\ t \in {"audio", "audio_unplayable"} => arrived < MaxArrived
    /\ arrived' = IF t \in {"audio", "audio_unplayable"} THEN arrived + 1
                  ELSE arrived
    /\ live' = CASE t = "audio" -> playPCMAudio(live, TRUE)
                 [] t = "audio_unplayable" -> playPCMAudio(live, FALSE)
                 [] t \in {"input_transcript", "tool_call"} ->
                        [live EXCEPT !.state = "processing"]
                 [] t = "error" ->
                        [live EXCEPT !.errorMessage = "server", !.state = "error"]
                 [] t = "error_blank" ->
                        [live EXCEPT !.errorMessage = "", !.state = "error"]
                 [] OTHER -> live
    /\ UNCHANGED <<startSessions, stopCalled, captured>>
    /\ UNCHANGED outsideSession

\* the sources whose onended can fire: one in the current context, one in
\* a context the ref no longer holds, or one whose context was closed
EndingSources ==
    {w \in {"audible", "orphaned", "silenced"} :
        CASE w = "audible" -> live.audible > 0
          [] w = "orphaned" -> live.orphaned > 0
          [] OTHER -> live.playing > live.audible + live.orphaned}

\* source.onended of a buffer source that was started
SourceEnded ==
    /\ \E w \in EndingSources :
          live' = playNextInQueue(
                     [live EXCEPT !.playing = @ - 1,
                                  !.audible = IF w = "audible" THEN @ - 1 ELSE @,
                                  !.orphaned = IF w = "orphaned" THEN @ - 1 ELSE @])
    /\ UNCHANGED <<startSessions, stopCalled, arrived, captured>>
    /\ UNCHANGED outsideSession

\* processor.onaudioprocess of a connected processor in a running context
AudioProcess(q) ==
    /\ q \in DOMAIN live.processors
    /\ live.processors[q].on
    /\ live.contexts[live.processors[q].ctx] = "running"
    /\ captured < MaxCaptured
    /\ captured' = captured + 1
    /\ live' = IF LiveOpen(live)
               THEN [live EXCEPT !.wire = Append(@, [type |-> "audio",
                                                     sock |-> live.wsRef])]
               ELSE live
    /\ UNCHANGED <<startSessions, stopCalled, arrived>>
    /\ UNCHANGED outsideSession

SessionNext ==
    \/ startSession
    \/ stopSession
    \/ toggleSession
    \/ \E i \in DOMAIN startSessions : GotUserMedia(i)
    \/ \E i \in DOMAIN startSessions : NoUserMedia(i)
    \/ \E s \in DOMAIN live.sockets : SessionOpen(s)
    \/ \E s \in DOMAIN live.sockets : SessionError(s)
    \/ \E s \in DOMAIN live.sockets : SessionClose(s)
    \/ \E s \in DOMAIN live.sockets, t \in MessageTypes : SessionMessage(s, t)
    \/ SourceEnded
    \/ \E q \in DOMAIN live.processors : AudioProcess(q)

SpecSession == Init /\ [][SessionNext]_vars

\* the states in which a session is active
ActiveStates == {"listening", "processing", "speaking"}

\* C4 (as claimed): after stopSession was called in state connecting,
\* listening or speaking (and startSession was not called again) the state
\* is idle, no processor is connected, no microphone stream is live, no
\* socket is connecting or open, and the playback queue is empty.
C4_StopEndsIdle ==
    stopCalled =>
        /\ live.state = "idle"
        /\ \A q \in DOMAIN live.processors : ~live.processors[q].on
        /\ \A m \in DOMAIN live.streams : live.streams[m] = "stopped"
        /\ \A s \in DOMAIN live.sockets :
              live.sockets[s].rs \in {"CLOSING", "CLOSED"}
        /\ live.audioQueueRef = 0

\* C10 (as claimed, for startSession): a startSession called in state
\* listening, processing or speaking opens no socket and acquires no
\* stream.
C10_StartNoOp ==
    \A i \in DOMAIN startSessions :
        startSessions[i].state \in ActiveStates
            => startSessions[i].sock = 0 /\ startSessions[i].stream = 0

\* C11 (as claimed): after startPCMRecording failed in startCall, with no
\* startCall still in flight and until the user calls something again,
\* isSessionActive and isRecording are false, whatever the server sends.
C11_FailedStaysInactive ==
    (micFailed /\ \A p \in DOMAIN startCalls : startCalls[p].pc = "done")
        => ~isSessionActive /\ ~isRecording

\* C12 (as claimed, for useVoice): the ws.onmessage of a server 'error'
\* envelope leaves the session neither active nor recording, and so does
\* a transport error once the close event that follows it is delivered.
C12_ErrorEndsSession ==
    [][/\ (\E s \in DOMAIN sockets : OnMessage(s, "error"))
             => (~isSessionActive' /\ ~isRecording')
       /\ (\E s \in DOMAIN sockets : sockets[s] = "CLOSING" /\ SocketClose(s))
             => (~isSessionActive' /\ ~isRecording')]_vars

-----------------------------------------------------------------------------
(* usePCMAudio playback: failures, teardown and progress.                  *)

\* the text cannot be played whatever the context: it is empty, atob
\* rejects it, or its bytes are not a whole, positive number of samples
Unplayable(data) == data = <<>> \/ ~StartsPlaying(data, 1)

\* the ids of the chunks for which a source was started
StartedIds == {sources[k].id : k \in 1..Len(sources)}

\* the ids of the chunks waiting in the queue
QueuedIds == {audioQueueRef[i].id : i \in 1..Len(audioQueueRef)}

\* C13: a chunk that fails to decode or play is passed over and nothing
\* else: the loop passes over a chunk only when that chunk cannot be
\* played (its own text, or no playback context after a cleanup); every
\* other chunk was started or is still queued; and while chunks are queued
\* the loop that passed over the failing one is still running (the queue is
\* left without a loop only when the AudioContext could not be created).
C13_FailureIsLocal ==
    /\ \A d \in dropped : Unplayable(texts[d]) \/ cleanups > 0
    /\ \A j \in 1..enqueued : j \in dropped \/ j \in StartedIds \/ j \in QueuedIds
    /\ (audioQueueRef # <<>> /\ loops = {}) => playbackContextRef = 0

\* chunk 1 plays, chunks 2 and 3 fail to decode while it sounds, chunk 4
\* is queued behind them; at chunk 1's onended the loop passes over 2 and 3
\* and starts 4
C13_Witness ==
    /\ enqueued = 4
    /\ cleanups = 0
    /\ dropped = {2, 3}
    /\ texts[2] = <<"A", "!", "A", "=">>
    /\ texts[3] = <<"A", "A", "A", "A">>
    /\ Len(sources) = 2
    /\ sources[1].id = 1 /\ sources[1].ended
    /\ sources[2].id = 4 /\ Sounding(2)
    /\ audioQueueRef = <<>>

\* ---------------------------------------------------------------------
\* usePCMAudio's capture side on its own: startRecording and stopRecording
\* called directly on the hook, with each release step of stopRecording
\* free to throw.
\* ---------------------------------------------------------------------

MaxContexts == 2

\* startRecording() called on the hook
StartRecording ==
    /\ ctxLive < MaxContexts
    /\ IF StartInProgress(isStartingRef)
       THEN UNCHANGED captureVars
       ELSE BeginRecording(0)
    /\ UNCHANGED <<voiceVars, playVars>>
    /\ UNCHANGED outsideVoice

CaptureNext ==
    \/ StartRecording
    \/ AddModuleDone
    \/ \E t \in MicToasts : RecordingFailed(t)
    \/ GetUserMediaDone
    \/ \E throws \in StopThrows : StopRecording(throws)
    \/ \E throws \in StopThrows : Cleanup(throws)

SpecCapture == Init /\ [][CaptureNext]_vars

\* C14 (as claimed): ending a call tears the capture down completely: when
\* stopRecording runs past its guard, the worklet node is disconnected, the
\* capture AudioContext is closed and the microphone stream is stopped,
\* whichever of the release steps throws (the throwing step's own resource
\* excepted).
C14_TeardownComplete ==
    [][\A throws \in StopThrows :
          (~isStartingRef /\ workletNodeRef /\ audioContextRef /\ streamRef
              /\ StopRecording(throws))
             => /\ throws # "node" => ~workletNodeRef'
                /\ throws # "context" => ~audioContextRef'
                /\ throws # "stream" => ~streamRef']_vars

\* C15 (as claimed, for useVoice + usePCMAudio): an explicit stop, be it
\* the stopRecording that endCall makes or cleanup, aborts the chunk that
\* is sounding: right after it no chunk is sounding.
C15_StopAbortsPlayback ==
    [][(\E throws \in StopThrows : StopRecording(throws) \/ Cleanup(throws))
          => \A k \in 1..Len(sources') : ~Sounding(k)']_vars

\* C16 (as claimed): endCall is valid from any state and drives the
\* session to idle: in every state of a session the client started, with
\* no startCall in flight, a call of
\* endCall leaves the session neither active nor recording, the session id
\* cleared and the capture (worklet node, AudioContext, stream) released.
C16_EndCallEndsIdle ==
    (/\ SentOfType("start") # {}
     /\ rec.pc = "none"
     /\ \A p \in DOMAIN startCalls : startCalls[p].pc = "done")
        => ENABLED (/\ EndCall
                    /\ ~isSessionActive' /\ ~isRecording'
                    /\ sessionIdRef' = 0
                    /\ ~workletNodeRef' /\ ~audioContextRef' /\ ~streamRef')

\* C17 (as claimed): playback always makes progress: no sequence of
\* playAudioChunk, onended and cleanup events reaches a state where a chunk
\* is queued, isPlayingRef is true and no loop can resume (every loop
\* awaits an onended that cannot be delivered any more).
C17_QueueNeverStuck ==
    ~(/\ audioQueueRef # <<>>
      /\ isPlayingRef
      /\ \A k \in loops : ~CanEnd(k))

\* C18: the in-progress guard of startRecording is tested and set before
\* the first await, so at most one startRecording body is executing at any
\* time, and it is cleared on every exit of the body: isStartingRef is true
\* exactly while a body is between its first line and its exit.
C18_OneStartBody ==
    /\ bodies <= 1
    /\ isStartingRef <=> bodies = 1
    /\ isStartingRef <=> rec.pc # "none"

\* startCall 1 is inside startRecording, at getUserMedia, and startCall 2
\* has met the guard: its startPCMRecording() returned without a body
C18_Witness ==
    /\ Len(startCalls) = 2
    /\ rec = [pc |-> "getUserMedia", owner |-> 1]
    /\ startCalls[1].pc = "rec"
    /\ startCalls[2].pc = "done"
    /\ startCalls[2].outcome = "started"
    /\ isStartingRef
    /\ ctxLive = 1

\* C19 (as claimed): in the Live-API hook the state goes from speaking to
\* listening only when the last queued chunk has finished playing and the
\* socket is still open: a step that takes the state from speaking to
\* listening leaves no chunk queued, none sounding, and the socket OPEN.
C19_ListeningWhenDrained ==
    [][(live.state = "speaking" /\ live'.state = "listening")
          => /\ live'.audioQueueRef = 0
             /\ live'.playing = 0
             /\ LiveOpen(live')]_vars

\* C20 (as claimed): the state never becomes listening before the server's
\* 'session_started' was received on the current socket: the onopen of the
\* current socket, before which nothing was received on it, does not make
\* the state listening.
C20_ListeningNeedsAck ==
    [][\A s \in DOMAIN live.sockets :
          (live.wsRef = s /\ SessionOpen(s)) => live'.state # "listening"]_vars

-----------------------------------------------------------------------------
(* The keepalive of useVoice: the effect that sets and clears the 30 s     *)
(* interval, the interval's callback, and the server's 'pong', next to a   *)
(* session that is started on a connected socket, records, plays audio     *)
(* answers and is ended.                                                   *)

MaxPings == 1

MaxResponses == 2

\* the keepalive effect runs after a render in which isConnected differs
\* from the value it last ran with: its cleanup clears the interval, and
\* it sets a new one unless !isConnected || !wsRef.current
KeepaliveEffect ==
    /\ effectSaw # isConnected
    /\ effectSaw' = isConnected
    /\ pingInterval' = (isConnected /\ wsRef # 0)
    /\ UNCHANGED <<pingStates, pongs>>
    /\ UNCHANGED <<voiceVars, captureVars, playVars>>
    /\ UNCHANGED outsideHooks

\* the test of the interval's callback on the readyState it finds ("none":
\* wsRef.current is null)
PingAllowedAnyState(rs) == TRUE

PingAllowed(rs) == rs = "OPEN"

\* the interval's callback fires
Ping ==
    /\ pingInterval
    /\ Cardinality({i \in DOMAIN sent : sent[i].type = "ping"}) < MaxPings
    /\ LET rs == IF wsRef = 0 THEN "none" ELSE sockets[wsRef]
       IN  IF PingAllowed(rs)
           THEN /\ pingStates' = pingStates \cup {rs}
                /\ sent' = Wire([type |-> "ping", sid |-> 0, by |-> 0])
           ELSE UNCHANGED <<pingStates, sent>>
    /\ UNCHANGED <<effectSaw, pingInterval, pongs>>
    /\ UNCHANGED <<isConnected, isSessionActive, isRecording, wsRef, sockets,
                   sessionIdRef, lastNow, startCalls, toast, frames, micFailed>>
    /\ UNCHANGED <<captureVars, playVars>>
    /\ UNCHANGED outsideHooks

\* ws.onmessage of socket s with an 'audio_response' envelope that carries
\* audio: await playAudioChunk(message.audio)
AudioResponse(s) ==
    /\ s \in 1..Len(sockets)
    /\ sockets[s] = "OPEN"
    /\ enqueued < MaxResponses
    /\ PlayAudioChunk(<<"A", "A", "A", "=">>, TRUE)

KeepaliveNext ==
    \/ Connect
    \/ Disconnect
    \/ \E s \in 1..Len(sockets) : SocketOpen(s)
    \/ \E s \in 1..Len(sockets) : SocketError(s)
    \/ \E s \in 1..Len(sockets) : SocketClose(s)
    \/ KeepaliveEffect
    \/ Ping
    \/ \E s \in 1..Len(sockets), t \in ServerTypes : OnMessage(s, t)
    \/ (isConnected /\ WsOpen /\ startCalls = <<>> /\ StartCall)
    \/ AddModuleDone
    \/ GetUserMediaDone
    \/ EndCall
    \/ \E s \in 1..Len(sockets) : AudioResponse(s)
    \/ \E k \in 1..Len(sources) : OnEnded(k)

SpecKeepalive == Init /\ [][KeepaliveNext]_vars

\* C21: a 'ping' is passed to send only when the socket in wsRef is OPEN,
\* and the receipt of a 'pong' changes none of isConnected,
\* isSessionActive, isRecording, the session id and the playback queue.
C21_Keepalive ==
    /\ [](pingStates \subseteq {"OPEN"})
    /\ [][(\E s \in 1..Len(sockets) : OnMessage(s, "pong"))
             => UNCHANGED <<isConnected, isSessionActive, isRecording,
                            sessionIdRef, audioQueueRef>>]_vars

\* a ping went out and its pong came back in the middle of a session:
\* connected, active, recording, a chunk sounding and another queued
C21_Witness ==
    /\ pongs = 1
    /\ pingStates = {"OPEN"}
    /\ isConnected /\ isSessionActive /\ isRecording
    /\ sessionIdRef # 0
    /\ audioQueueRef # <<>>

\* C22 (as claimed): the session id is immutable while the session is
\* live: sessionIdRef only changes from null to an id or from an id to
\* null, never from one id to a different id.
C22_SessionIdImmutable ==
    [][sessionIdRef' # sessionIdRef => (sessionIdRef = 0 \/ sessionIdRef' = 0)]_vars

\* C23 (as claimed): in the Live-API hook no two audio buffers ever play
\* concurrently, whatever audio envelopes, onended events, stopSession and
\* startSession calls come: as long as every source was started in the
\* context the hook still holds or in one it has closed, at most one of
\* them is sounding.
C23_NoConcurrentBuffers == live.orphaned = 0 => live.audible <= 1

-----------------------------------------------------------------------------
(* The blob-based useVoiceSession hook (part_000:728-888).  blob holds the *)
(* hook's state and refs: wsRef (0 for null, else the index of a socket),  *)
(* sockets [rs, state] (readyState, and the state its handlers closed      *)
(* over), mediaStreamRef ("none" / "live" / "stopped"), mediaRecorderRef   *)
(* ("none" / "recording" / "inactive"), audioContextRef ("none" /          *)
(* "running" / "closed": cleanup closes the context and keeps the ref),    *)
(* and plays, the playAudio invocations in arrival order, each at          *)
(* "arrayBuffer", "decode", "playing", "silenced" (started, its context    *)
(* closed), "ended" or "failed".                                           *)

MaxBlobSessions == 2

MaxBlobs == 2

\* wsRef.current?.readyState === WebSocket.OPEN
BlobOpen(r) == r.wsRef # 0 /\ r.sockets[r.wsRef].rs = "OPEN"

blobCleanup(r) ==
    LET a == IF r.mediaRecorderRef = "recording"
             THEN [r EXCEPT !.mediaRecorderRef = "inactive"]
             ELSE r
        b == IF a.mediaStreamRef # "none"
             THEN [a EXCEPT !.mediaStreamRef = "stopped"]
             ELSE a
        c == IF BlobOpen(b)
             THEN [b EXCEPT !.sockets[b.wsRef].rs = "CLOSING"]
             ELSE b
    IN  IF c.audioContextRef # "none"
        THEN [c EXCEPT !.audioContextRef = "closed",
                       !.plays = [i \in DOMAIN c.plays |->
                                     IF c.plays[i] = "playing" THEN "silenced"
                                     ELSE c.plays[i]]]
        ELSE c

\* startSession(), up to its await of getUserMedia
blobStartSession ==
    /\ Len(blobStarts) < MaxBlobSessions
    /\ blob' = [blob EXCEPT !.state = "connecting", !.errorMessage = ""]
    /\ blobStarts' = Append(blobStarts, [pc |-> "getUserMedia",
                                         state |-> blob.state])
    /\ UNCHANGED outsideBlob

\* getUserMedia resolves for invocation i: the stream and a new WebSocket
\* go into the refs
BlobGotUserMedia(i) ==
    /\ i \in DOMAIN blobStarts
    /\ blobStarts[i].pc = "getUserMedia"
    /\ blob' = [blob EXCEPT
                  !.mediaStreamRef = "live",
                  !.sockets = Append(@, [rs |-> "CONNECTING",
                                         state |-> blobStarts[i].state]),
                  !.wsRef = Len(blob.sockets) + 1]
    /\ blobStarts' = [blobStarts EXCEPT ![i].pc = "done"]
    /\ UNCHANGED outsideBlob

\* getUserMedia rejects for invocation i: the catch of startSession
BlobNoUserMedia(i) ==
    /\ i \in DOMAIN blobStarts
    /\ blobStarts[i].pc = "getUserMedia"
    /\ blob' = blobCleanup([blob EXCEPT !.errorMessage = "noMicrophone",
                                        !.state = "error"])
    /\ blobStarts' = [blobStarts EXCEPT ![i].pc = "done"]
    /\ UNCHANGED outsideBlob

blobStopSession ==
    /\ blob' = blobCleanup([blob EXCEPT !.state = "idle"])
    /\ UNCHANGED blobStarts
    /\ UNCHANGED outsideBlob

\* toggleSession(): state is the state of the current render
blobToggleSession ==
    IF blob.state \in {"idle", "error"} THEN blobStartSession ELSE blobStopSession

\* ws.onopen of socket s: startRecording()
BlobSocketOpen(s) ==
    /\ s \in DOMAIN blob.sockets
    /\ blob.sockets[s].rs = "CONNECTING"
    /\ LET r == [blob EXCEPT !.sockets[s].rs = "OPEN"]
       IN  blob' = IF r.mediaStreamRef = "none" \/ r.wsRef = 0 THEN r
                   ELSE [r EXCEPT !.mediaRecorderRef = "recording",
                                  !.state = "listening"]
    /\ UNCHANGED blobStarts
    /\ UNCHANGED outsideBlob

\* ws.onerror of socket s
BlobSocketError(s) ==
    /\ s \in DOMAIN blob.sockets
    /\ blob.sockets[s].rs \in {"CONNECTING", "OPEN"}
    /\ blob' = blobCleanup([blob EXCEPT !.sockets[s].rs = "CLOSING",
                                        !.errorMessage = "connection",
                                        !.state = "error"])
    /\ UNCHANGED blobStarts
    /\ UNCHANGED outsideBlob

\* ws.onclose of socket s; state in its test is the state startSession
\* closed over
BlobSocketClose(s) ==
    /\ s \in DOMAIN blob.sockets
    /\ blob.sockets[s].rs # "CLOSED"
    /\ LET r == [blob EXCEPT !.sockets[s].rs = "CLOSED"]
       IN  blob' = blobCleanup(IF blob.sockets[s].state # "error"
                               THEN [r EXCEPT !.state = "idle"]
                               ELSE r)
    /\ UNCHANGED blobStarts
    /\ UNCHANGED outsideBlob

\* what ws.onmessage tells apart: a Blob, the text {type: "processing"},
\* any other text
BlobMessageKinds == {"blob", "processing", "other"}

\* ws.onmessage of socket s; for a Blob, playAudio up to its first await
\* (audioBlob.arrayBuffer())
BlobMessage(s, kind) ==
    /\ s \in DOMAIN blob.sockets
    /\ blob.sockets[s].rs = "OPEN"
    /\ kind = "blob" => Len(blob.plays) < MaxBlobs
    /\ blob' = CASE kind = "blob" ->
                      [blob EXCEPT !.state = "speaking",
                                   !.audioContextRef =
                                        IF @ = "none" THEN "running" ELSE @,
                                   !.plays = Append(@, "arrayBuffer")]
                 [] kind = "processing" -> [blob EXCEPT !.state = "processing"]
                 [] OTHER -> blob
    /\ UNCHANGED blobStarts
    /\ UNCHANGED outsideBlob

\* audioBlob.arrayBuffer() resolves for playAudio invocation i, which goes
\* on to await decodeAudioData
BlobArrayBuffer(i) ==
    /\ i \in DOMAIN blob.plays
    /\ blob.plays[i] = "arrayBuffer"
    /\ blob' = [blob EXCEPT !.plays[i] = "decode"]
    /\ UNCHANGED blobStarts
    /\ UNCHANGED outsideBlob

\* decodeAudioData settles for playAudio invocation i: the source is
\* created and started at once, or the catch sets "listening"
BlobDecoded(i, ok) ==
    /\ i \in DOMAIN blob.plays
    /\ blob.plays[i] = "decode"
    /\ blob' = IF ok
               THEN [blob EXCEPT !.plays[i] =
                        IF blob.audioContextRef = "running" THEN "playing"
                        ELSE "silenced"]
               ELSE [blob EXCEPT !.plays[i] = "failed", !.state = "listening"]
    /\ UNCHANGED blobStarts
    /\ UNCHANGED outsideBlob

\* source.onended of playAudio invocation i
BlobEnded(i) ==
    /\ i \in DOMAIN blob.plays
    /\ blob.plays[i] \in {"playing", "silenced"}
    /\ blob' = [blob EXCEPT !.plays[i] = "ended",
                            !.state = IF BlobOpen(blob) THEN "listening" ELSE @]
    /\ UNCHANGED blobStarts
    /\ UNCHANGED outsideBlob

BlobNext ==
    \/ blobStartSession
    \/ blobStopSession
    \/ blobToggleSession
    \/ \E i \in DOMAIN blobStarts : BlobGotUserMedia(i)
    \/ \E i \in DOMAIN blobStarts : BlobNoUserMedia(i)
    \/ \E s \in DOMAIN blob.sockets : BlobSocketOpen(s)
    \/ \E s \in DOMAIN blob.sockets : BlobSocketError(s)
    \/ \E s \in DOMAIN blob.sockets : BlobSocketClose(s)
    \/ \E s \in DOMAIN blob.sockets, k \in BlobMessageKinds : BlobMessage(s, k)
    \/ \E i \in DOMAIN blob.plays : BlobArrayBuffer(i)
    \/ \E i \in DOMAIN blob.plays, ok \in BOOLEAN : BlobDecoded(i, ok)
    \/ \E i \in DOMAIN blob.plays : BlobEnded(i)

SpecBlob == Init /\ [][BlobNext]_vars

\* C24 (as claimed): in the blob-based hook, when audio message A arrived
\* before audio message B, B is not playing while A is still to be played
\* or playing.
C24_BlobsInOrder ==
    \A i, j \in DOMAIN blob.plays :
        (i < j /\ blob.plays[j] = "playing")
            => blob.plays[i] \notin {"arrayBuffer", "decode", "playing"}

\* C25: the connect wait of startCall is bounded: an invocation in the
\* loop has waited a multiple of 100 ms below 5000 ms (at most 50 sleeps in
\* all); a step of the loop either sleeps once more, and only when the
\* socket is not OPEN, or leaves the loop: with the socket not OPEN only at
\* the deadline, giving up, and otherwise with the socket OPEN; and a
\* 'start' goes on the wire only in a step that finds the socket OPEN.
C25_BoundedWait ==
    /\ [](\A p \in DOMAIN startCalls :
            startCalls[p].pc = "poll" =>
                /\ startCalls[p].waited % CheckInterval = 0
                /\ startCalls[p].waited \div CheckInterval < MaxWait \div CheckInterval)
    /\ [][\A p \in DOMAIN startCalls :
            (startCalls[p].pc = "poll" /\ startCalls'[p] # startCalls[p]) =>
                \/ /\ startCalls'[p].pc = "poll"
                   /\ startCalls'[p].waited = startCalls[p].waited + CheckInterval
                   /\ ~WsOpen
                \/ /\ startCalls'[p].outcome = "timeout"
                   /\ startCalls'[p].waited = MaxWait
                   /\ ~WsOpen
                \/ /\ startCalls'[p].pc \in {"rec", "done"}
                   /\ startCalls'[p].outcome # "timeout"
                   /\ WsOpen]_vars
    /\ [][\A i \in DOMAIN sent' :
            (i \notin DOMAIN sent /\ sent'[i].type = "start") => WsOpen]_vars

\* invocation 1 slept 50 times and gave up at the deadline; invocation 2
\* left its loop on an OPEN socket and its 'start' is on the wire
C25_Witness ==
    /\ Len(startCalls) = 2
    /\ startCalls[1].outcome = "timeout"
    /\ startCalls[1].waited = MaxWait
    /\ startCalls[2].pc = "rec"
    /\ \E i \in DOMAIN sent : sent[i].type = "start" /\ sent[i].by = 2

-----------------------------------------------------------------------------
(* AudioRecorderWorklet: order of the posted frames                        *)

\* C26: the posted frames, one after the other, followed by the filled part
\* of the accumulator, are exactly the converted samples in the order they
\* were consumed (nothing lost, duplicated or reordered across a frame
\* boundary), and a frame once posted is never changed by later writes to
\* the accumulator.
C26_FramesInOrder ==
    /\ [](/\ Len(written) = Len(posted) * BufferLen + bufferWriteIndex
          /\ \A k \in 1..Len(posted) : \A j \in 0..(BufferLen - 1) :
                posted[k][j] = written[(k - 1) * BufferLen + j + 1]
          /\ \A j \in 0..(bufferWriteIndex - 1) :
                buffer[j] = written[Len(posted) * BufferLen + j + 1])
    /\ [][\A k \in 1..Len(posted) :
            k \in 1..Len(posted') /\ posted'[k] = posted[k]]_vars

\* 2047 samples of 1.0, then a block of 128 zeros: the frame ends with the
\* first zero, and the other 127 overwrite the start of the accumulator
C26_Witness ==
    /\ calls = 2
    /\ Len(posted) = 1
    /\ posted[1][0] = 32767
    /\ posted[1][BufferLen - 2] = 32767
    /\ posted[1][BufferLen - 1] = 0
    /\ bufferWriteIndex = 127
    /\ buffer[0] = 0

\* C27: a process() call with no input returns true, posts nothing and
\* leaves the accumulator and the write index as they were, so the samples
\* consumed before and after it fill the same frame.
C27_NoInputTolerated ==
    /\ [][(calls' = calls + 1 /\ pushed' = pushed) =>
            /\ keepAlive' = TRUE
            /\ UNCHANGED <<buffer, bufferWriteIndex, posted>>]_vars
    /\ [](/\ keepAlive
          /\ bufferWriteIndex = pushed % BufferLen
          /\ \A j \in 0..(bufferWriteIndex - 1) :
                buffer[j] = written[Len(written) - bufferWriteIndex + j + 1])

\* 2047 samples of 1.0, a call with no input, then one sample of -1.0 that
\* completes the frame
C27_Witness ==
    /\ calls = 3
    /\ idleAt = BufferLen - 1
    /\ pushed = BufferLen
    /\ Len(posted) = 1
    /\ posted[1][BufferLen - 2] = 32767
    /\ posted[1][BufferLen - 1] = -32768
    /\ bufferWriteIndex = 0

-----------------------------------------------------------------------------
(* PCM16 -> Float32 on the playback side, Float32 -> PCM16 in process().   *)
(* A Float32 is [sign, m, e], the value sign * m / 2^e, with m = 0 for     *)
(* zero and 2^23 <= m < 2^24 otherwise (24 significant bits).  Every       *)
(* product below stays under 2^31.                                         *)

\* the 16-bit samples the converters are given: all of them
PcmSamples == -32768..32767

RECURSIVE DivBits(_, _, _, _)
\* long division, one binary digit a step, until the quotient has 24 bits:
\* m = floor(n * 2^e / d) and rem = n * 2^e - m * d
DivBits(m, e, rem, d) ==
    IF m >= 2^23 THEN [m |-> m, e |-> e, rem |-> rem]
    ELSE IF 2 * rem >= d THEN DivBits(2 * m + 1, e + 1, 2 * rem - d, d)
         ELSE DivBits(2 * m, e + 1, 2 * rem, d)

\* the store of n / d (0 <= n <= d < 2^16) into a Float32Array element: the
\* nearest Float32, a tie going to the even one.  The quotient is a double
\* before it is stored; it is never close enough to the middle of two
\* Float32 for that first rounding to change the result.
Float32Of(sign, n, d) ==
    IF n = 0 THEN [sign |-> sign, m |-> 0, e |-> 0]
    ELSE LET q == DivBits(n \div d, 0, n % d, d)
             up == 2 * q.rem > d \/ (2 * q.rem = d /\ q.m % 2 = 1)
             m == IF up THEN q.m + 1 ELSE q.m
         IN  IF m = 2^24 THEN [sign |-> sign, m |-> 2^23, e |-> q.e - 1]
             ELSE [sign |-> sign, m |-> m, e |-> q.e]

\* int16Array[i] < 0 ? 0x8000 : 0x7FFF, with one divisor for both signs
DivisorSym(v) == 2^15

\* int16Array[i] < 0 ? 0x8000 : 0x7FFF
Divisor(v) == IF v < 0 THEN 32768 ELSE 32767

\* float32Array[i] = int16Array[i] / (int16Array[i] < 0 ? 0x8000 : 0x7FFF)
ToFloat32(v) ==
    IF v < 0 THEN Float32Of(-1, -v, Divisor(v)) ELSE Float32Of(1, v, Divisor(v))

\* Math.max(-1, Math.min(1, f)) of a Float32
ClampF32(f) ==
    IF f.m # 0 /\ (f.e < 23 \/ (f.e = 23 /\ f.m > 2^23))
    THEN [sign |-> f.sign, m |-> 2^23, e |-> 23]
    ELSE f

\* floor((m * c + half * 2^12) / 2^e) for m < 2^24, c < 2^16, e >= 12
MulShift(m, c, e, half) ==
    ((m \div 4096) * c + ((m % 4096) * c) \div 4096 + half) \div 2^(e - 12)

\* this.buffer[..] = sample < 0 ? sample * 0x8000 : sample * 0x7FFF for a
\* clamped Float32 sample: the product is exact in a double and the Int16Array
\* store drops its fraction (toward zero) and wraps
F32ToInt16(f) ==
    LET c == ClampF32(f)
    IN  IF c.m = 0 THEN 0
        ELSE IF c.sign < 0 THEN WrapInt16(-MulShift(c.m, 32768, c.e, 0))
        ELSE WrapInt16(MulShift(c.m, 32767, c.e, 0))

\* the 16-bit value nearest to the Float32 under the same scaling
NearestInt16(f) ==
    IF f.m = 0 THEN 0
    ELSE IF f.sign < 0 THEN -MulShift(f.m, 32768, f.e, 2^(f.e - 13))
    ELSE MulShift(f.m, 32767, f.e, 2^(f.e - 13))

\* the PCM16 to Float32 loop of playAudioChunk / playPCMAudio, one sample
DecodeSample(v) ==
    /\ convPc = "idle"
    /\ pcmSample' = v
    /\ floatSample' = ToFloat32(v)
    /\ convPc' = "decoded"
    /\ UNCHANGED int16Sample
    /\ UNCHANGED outsideConv

\* the decoded sample given to process() as an input sample
EncodeSample ==
    /\ convPc = "decoded"
    /\ int16Sample' = F32ToInt16(floatSample)
    /\ convPc' = "encoded"
    /\ UNCHANGED <<pcmSample, floatSample>>
    /\ UNCHANGED outsideConv

ConvNext ==
    \/ (convPc = "idle" /\ \E v \in PcmSamples : DecodeSample(v))
    \/ EncodeSample

SpecConv == Init /\ [][ConvNext]_vars

One == [sign |-> 1, m |-> 2^23, e |-> 23]

MinusOne == [sign |-> -1, m |-> 2^23, e |-> 23]

\* C28 as stated: re-encoding a decoded sample with the capture-side
\* scaling gives back the original integer, for every 16-bit sample.
C28_Original == convPc = "encoded" => int16Sample = pcmSample

\* C28: -32768 decodes to exactly -1.0, 32767 to exactly 1.0 and 0 to 0; a
\* negative sample v decodes to exactly v/32768; a positive one to the
\* Float32 next to v/32767, from which v is the nearest 16-bit value.
\* Re-encoding with the capture-side scaling, which drops the fraction,
\* gives v back for v <= 0 and v = 32767, and v or v - 1 for the other
\* positive samples; 1 comes back as 0.
C28_DecodeScaling ==
    /\ convPc # "idle" =>
          /\ pcmSample = -32768 => floatSample = MinusOne
          /\ pcmSample = 32767 => floatSample = One
          /\ pcmSample = 0 <=> floatSample.m = 0
          /\ pcmSample < 0 =>
                /\ floatSample.sign = -1
                /\ floatSample.e >= 15
                /\ floatSample.m = (-pcmSample) * 2^(floatSample.e - 15)
          /\ pcmSample > 0 =>
                /\ floatSample.sign = 1
                /\ floatSample.m \in (2^23)..(2^24 - 1)
          /\ NearestInt16(floatSample) = pcmSample
    /\ convPc = "encoded" =>
          /\ (pcmSample <= 0 \/ pcmSample = 32767) => int16Sample = pcmSample
          /\ int16Sample \in {pcmSample, pcmSample - 1}
          /\ pcmSample = 1 => int16Sample = 0

\* a positive sample whose decoded value lies below v/32767
C28_Witness ==
    /\ convPc = "encoded"
    /\ pcmSample = 256
    /\ int16Sample = 255

-----------------------------------------------------------------------------
(* The Live-API useVoiceSession: error as a rest state                     *)

\* C29: once the state is error it stays error until startSession,
\* stopSession or toggleSession is called; in particular the onclose of a
\* socket, arriving while the state is error, leaves it error.
C29_ErrorIsRest ==
    [][\A s \in DOMAIN live.sockets :
          (live.state = "error" /\ SessionClose(s)) => live'.state = "error"]_vars

-----------------------------------------------------------------------------
(* useVoice: the 'session_stopped' envelope                                *)

\* C30: receiving 'session_stopped' leaves the session idle: isSessionActive
\* and isRecording are false, no capture is running (no worklet node is
\* connected, no microphone track is live) and the session id is no longer
\* live (sessionIdRef.current is null).
C30_StoppedIsIdle ==
    [][\A s \in 1..Len(sockets) :
          OnMessage(s, "session_stopped") =>
              /\ ~isSessionActive'
              /\ ~isRecording'
              /\ nodeLive' = 0
              /\ streamLive' = 0
              /\ sessionIdRef' = 0]_vars

-----------------------------------------------------------------------------
(* The Live-API useVoiceSession: the message shown with the error state    *)

\* C31: whenever the state is error, errorMessage is a non-empty text, and
\* it is the text of the failure that caused the state: the microphone
\* text, the connection text or the text the server sent.
C31_ErrorHasMessage ==
    live.state = "error" =>
        live.errorMessage \in {"noMicrophone", "connection", "server"}

-----------------------------------------------------------------------------
(* The Live-API useVoiceSession driven by toggleSession alone              *)

\* the hook with toggleSession as the only call the page makes
ToggleNext ==
    \/ toggleSession
    \/ \E i \in DOMAIN startSessions : GotUserMedia(i)
    \/ \E i \in DOMAIN startSessions : NoUserMedia(i)
    \/ \E s \in DOMAIN live.sockets : SessionOpen(s)
    \/ \E s \in DOMAIN live.sockets : SessionError(s)
    \/ \E s \in DOMAIN live.sockets : SessionClose(s)
    \/ \E s \in DOMAIN live.sockets, t \in MessageTypes : SessionMessage(s, t)
    \/ SourceEnded
    \/ \E q \in DOMAIN live.processors : AudioProcess(q)

SpecToggle == Init /\ [][ToggleNext]_vars

\* the sockets that are CONNECTING or OPEN, the microphone streams whose
\* tracks have not been stopped
AliveSockets == {s \in DOMAIN live.sockets : live.sockets[s].rs \in {"CONNECTING", "OPEN"}}

LiveStreams == {m \in DOMAIN live.streams : live.streams[m] = "live"}

\* C32: with toggleSession as the only call, starting from idle, there are
\* never two sockets alive (CONNECTING or OPEN) nor two live capture
\* streams at once.
C32_ToggleOneSession ==
    /\ Cardinality(AliveSockets) <= 1
    /\ Cardinality(LiveStreams) <= 1

-----------------------------------------------------------------------------
(* useVoice: the sockets connect() creates                                 *)

\* the sockets of the hook that are CONNECTING or OPEN
AliveWs == {s \in 1..Len(sockets) : sockets[s] \in {"CONNECTING", "OPEN"}}

\* C33: at most one WebSocket the hook created is alive (CONNECTING or
\* OPEN) at any time, and wsRef.current is that socket.
C33_OneSocket ==
    /\ Cardinality(AliveWs) <= 1
    /\ \A s \in AliveWs : wsRef = s

-----------------------------------------------------------------------------
(* useVoice: when 'audio' envelopes are sent                               *)

\* C34: an 'audio' envelope is sent only on an OPEN socket while a session
\* is live and carries that session's id: the session's 'start' envelope
\* is on the wire before it, its 'stop' envelope is not, and the session
\* has not been reported stopped (the page still shows it in progress).
C34_AudioInSession ==
    [][\A i \in DOMAIN sent' :
          (i \notin DOMAIN sent /\ sent'[i].type = "audio") =>
              /\ WsOpen
              /\ sent'[i].sid # 0
              /\ sent'[i].sid = sessionIdRef
              /\ \E j \in DOMAIN sent : sent[j].type = "start" /\ sent[j].sid = sent'[i].sid
              /\ ~\E j \in DOMAIN sent : sent[j].type = "stop" /\ sent[j].sid = sent'[i].sid
              /\ (isSessionActive \/ isRecording)]_vars

-----------------------------------------------------------------------------
(* useVoice: an active session can be ended                                *)

\* C35: once a 'start' has been sent, whenever isSessionActive or
\* isRecording is true, sessionIdRef.current (and wsRef.current) is
\* non-null, so endCall passes its guard and ends the session.
C35_ActiveHasId ==
    (SentOfType("start") # {} /\ (isSessionActive \/ isRecording)) =>
        (sessionIdRef # 0 /\ wsRef # 0)

-----------------------------------------------------------------------------
(* usePCMAudio: one capture pipeline                                       *)

\* C36: at most one capture pipeline is live and none is leaked: there is
\* at most one open capture AudioContext, one connected worklet node and
\* one live microphone stream, and each of them is the one its ref holds.
C36_OnePipeline ==
    /\ ctxLive <= 1 /\ nodeLive <= 1 /\ streamLive <= 1
    /\ ctxLive = 1 => audioContextRef
    /\ nodeLive = 1 => workletNodeRef
    /\ streamLive = 1 => streamRef

-----------------------------------------------------------------------------
(* usePCMAudio: isPlayingRef and the playback loop                         *)

\* C37: isPlayingRef is true exactly while a playback loop is active: with
\* no playAudioChunk invocation inside its loop isPlayingRef is false, and
\* whenever the queue is non-empty (between two events) isPlayingRef is
\* true.
C37_PlayingFlag ==
    /\ loops = {} => ~isPlayingRef
    /\ audioQueueRef # <<>> => isPlayingRef

-----------------------------------------------------------------------------
(* The Live-API useVoiceSession: when the state is speaking                *)

\* C38: the state is speaking only while a chunk is queued or sounding, and
\* an 'audio' envelope delivered while the state is idle or error (after
\* stopSession, after an error) does not make it speaking.
C38_SpeakingHasAudio ==
    /\ [](live.state = "speaking" => (live.audioQueueRef > 0 \/ live.audible > 0))
    /\ [][\A s \in DOMAIN live.sockets :
            (live.state \in {"idle", "error"}
                /\ (SessionMessage(s, "audio") \/ SessionMessage(s, "audio_unplayable")))
               => live'.state # "speaking"]_vars

-----------------------------------------------------------------------------
(* AudioRecorderWorklet: the write index                                   *)

\* C39: after every process() call the write index is in 0..2047 and is
\* the number of samples consumed since the last posted frame; the buffer
\* keeps its 2048 elements and the last sample was written inside it.
C39_IndexInRange ==
    /\ bufferWriteIndex \in 0..(BufferLen - 1)
    /\ bufferWriteIndex = Len(written) - BufferLen * Len(posted)
    /\ constructed => DOMAIN buffer = 0..(BufferLen - 1)
    /\ lastIndex \in -1..(BufferLen - 1)
    /\ lastIndex >= 0 => lastIndex = (Len(written) - 1) % BufferLen

\* blocks of 2047, 2048 and 128 samples: two frames posted, the second and
\* the third block each crossing the end of the buffer
C39_Witness ==
    /\ calls = 3
    /\ pushed = 2 * BufferLen + 127
    /\ Len(posted) = 2
    /\ bufferWriteIndex = 127
    /\ lastIndex = 126

====
